---- MODULE Spec2Model ----
(***************************************************************************)
(* The DataMover operator's reconciliation core as a state machine.        *)
(*                                                                         *)
(* The store (the cluster API) holds one DataMover request, the storage    *)
(* claims of its namespace and the batch jobs of its namespace.  One       *)
(* action is one invocation of DataMoverReconciler.Reconcile, dispatched   *)
(* on the request's phase; every store call of an invocation may fail, and *)
(* the invocation then returns the error as the code does (a crash between *)
(* two store calls leaves the store exactly as a failure of the second call*)
(* does).  The remaining actions are the cluster around the operator: the  *)
(* clock, the volume provisioner, the job controller and a user deleting   *)
(* or resizing a claim.  Spec reads the request from the store itself,     *)
(* StaleSpec from a cache that lags behind it, and LiveSpec adds the       *)
(* fairness of a run in which the cluster and the store cooperate.         *)
(*                                                                         *)
(* PopSpec is the volume populator, DataMoverPopulatorReconciler, on one   *)
(* target claim: its prime claim, its population job and the hand-off of   *)
(* the prime claim's volume, with claims and jobs deleted asynchronously;  *)
(* PopLiveSpec adds the fairness of a run in which the target claim is     *)
(* reconciled and the store answers again and again.                       *)
(*                                                                         *)
(* TimingSpec is the reconciler's in-memory timing table, PhaseStart, over *)
(* several requests at once.  CronSpec is the schedule producer,           *)
(* DataMoverCronReconciler (DataMoverScheduleReconciler is the same code): *)
(* the history limits and the creation of the next child request.          *)
(*                                                                         *)
(* ImageSpec is one run of entrypoint.sh, the entrypoint of the default    *)
(* image, in the pod of a sync job or of a population job: its environment,*)
(* the volume mounted at /data/ and the remote bucket.                     *)
(***************************************************************************)
EXTENDS Integers, Sequences, FiniteSets, TLC

\* ---------------------------------------------------------------- bounds
\* The clock runs over the unix seconds 1..MaxTime.
MaxTime == 2

\* ------------------------------------------------------------- constants
PhaseInitial == ""
PhaseCreatingPVC == "CreatingClonedPVC"
PhasePVCReady == "ClonedPVCReady"
PhaseCreatingPod == "CreatingPod"
PhaseCleaningUp == "CleaningUp"
PhaseCompleted == "Completed"
PhaseFailed == "Failed"

Phases ==
  {PhaseInitial, PhaseCreatingPVC, PhasePVCReady, PhaseCreatingPod,
   PhaseCleaningUp, PhaseCompleted, PhaseFailed}

\* backoffLimit := int32(2): 3 total attempts of the sync job.
BackoffLimit == 2

\* corev1.ClaimPending / corev1.ClaimBound
ClaimPending == "Pending"
ClaimBound == "Bound"

\* The request's spec.sourcePvc, and the sizes a source claim may request.
SourcePVC == "data"
SourceSizes == {"1Gi", "2Gi"}

VARIABLES
  dm,                \* the DataMover request as the store holds it
  pvcs,              \* the store's storage claims: name -> claim
  jobs,              \* the store's batch jobs: name -> job
  now,               \* time.Now().Unix()
  result,            \* what the last invocation returned ("none": the last
                     \* step was a step of the cluster, not an invocation)
  calls,             \* the store writes the last invocation issued, in order
  created,           \* history: the clones whose Create call succeeded
  jobSeenSucceeded,  \* history: an invocation read the job with a success
  deleteFailed,      \* history: a Delete call of the clone returned an error
  cache,             \* the client's copy of the request, which r.Get returns
  cachedReads,       \* whether r.Get reads a cache that lags behind the store
  claimsRead,        \* the claims the last invocation asked the store for
  pvs,               \* the store's volumes: name -> volume
  populators,        \* the names of the store's DataMoverPopulator objects
  secrets,           \* the names of the store's secrets
  handoffWritten,    \* history: a hand-off write of the target was accepted
  volAtSuccess,      \* history: the prime claim's volume when the job succeeded
  requests,          \* the store's DataMover requests: namespace/name -> phase
  PhaseStart,        \* the reconciler's timing side-table: its keys
  cron,              \* the DataMoverCron (or DataMoverSchedule) object
  children,          \* the store's DataMover requests labelled for the cron
  createdFor,        \* history: the scheduled time the last child was created
                     \* for (0: no child was created)
  env,               \* the environment of the image's container
  data,              \* the files of the volume mounted at /data/
  bucket,            \* the keys of the objects of the remote bucket
  script,            \* where entrypoint.sh stands, or how it exited
  destination_path   \* the script's variable of that name

dmVars ==
  <<dm, now, created, jobSeenSucceeded, deleteFailed, cache, cachedReads,
    claimsRead>>

\* What the population of a claim adds to the store, and its history.
popVars == <<pvs, populators, secrets, handoffWritten, volAtSuccess>>

\* The requests of a namespace with the timing side-table, and a schedule
\* with its children.
timingVars == <<requests, PhaseStart>>
scheduleVars == <<cron, children, createdFor>>

\* A run of the image's entrypoint in a job's pod.
imageVars == <<env, data, bucket, script, destination_path>>
restVars == <<timingVars, scheduleVars, imageVars>>

vars ==
  <<dm, pvcs, jobs, now, result, calls, created, jobSeenSucceeded,
    deleteFailed, cache, cachedReads, claimsRead, pvs, populators, secrets,
    handoffWritten, volAtSuccess, requests, PhaseStart, cron, children,
    createdFor, env, data, bucket, script, destination_path>>

\* ------------------------------------------------------------ the store
EmptyMap == [n \in {} |-> n]
Put(f, k, v) == [n \in DOMAIN f \cup {k} |-> IF n = k THEN v ELSE f[n]]
Remove(f, k) == [n \in DOMAIN f \ {k} |-> f[n]]

\* One store write of an invocation: Create, UpdateStatus or Delete, the kind
\* and name of its object, and whether the store accepted it.
Call(op, kind, name, ok) == [op |-> op, kind |-> kind, name |-> name, ok |-> ok]

\* Mutant: the clone takes the name of the source claim.
ClonedPVCName_OfSource(sourcePVC, unix) == sourcePVC

\* fmt.Sprintf("%s-cloned-%d", dm.Spec.SourcePVC, time.Now().Unix())
ClonedPVCName(sourcePVC, unix) == sourcePVC \o "-cloned-" \o ToString(unix)

\* Mutant: the job is named from the clock as the clone is.
JobName_Timestamped(restoredPVCName) ==
  "verify-" \o restoredPVCName \o "-" \o ToString(now)

\* fmt.Sprintf("verify-%s", dm.Status.RestoredPVCName)
JobName(restoredPVCName) == "verify-" \o restoredPVCName

\* Mutant: the clone requests a fixed size, not the source's.
ClonePVC_FixedSize(sourcePVC, source) ==
  [phase |-> ClaimPending,
   size |-> "1Gi",
   accessModes |-> source.accessModes,
   storageClassName |-> source.storageClassName,
   dataSource |-> sourcePVC,
   owner |-> ""]

\* The clone built from the source claim that was read; its metadata is a
\* name and a namespace, no owner reference.
ClonePVC(sourcePVC, source) ==
  [phase |-> ClaimPending,
   size |-> source.size,
   accessModes |-> source.accessModes,
   storageClassName |-> source.storageClassName,
   dataSource |-> sourcePVC,
   owner |-> ""]

\* The sync job: bounded retries, the clone as its only volume, no owner
\* reference.
VerificationJob(d) ==
  [backoffLimit |-> BackoffLimit,
   claimName |-> d.status.restoredPVCName,
   secretName |-> d.spec.secretName,
   owner |-> "",
   succeeded |-> 0,
   failed |-> 0]

\* A source claim as a user provisions it (no data source of its own).
SourceClaims ==
  [phase : {ClaimPending, ClaimBound},
   size : SourceSizes,
   accessModes : {"ReadWriteOnce"},
   storageClassName : {"standard"},
   dataSource : {""}]

\* ----------------------------------------------------- the state machine
\* Mutant: the Failed case falls into the cleanup step.
Handler_FailedCleansUp(phase) ==
  CASE phase = PhaseInitial -> "createClonedPVC"
    [] phase = PhaseCreatingPVC -> "waitForPVCBound"
    [] phase = PhasePVCReady -> "createVerificationJob"
    [] phase = PhaseCreatingPod -> "waitForJobCompletion"
    [] phase = PhaseCleaningUp -> "cleanupClonedPVC"
    [] phase = PhaseCompleted -> "none"
    [] phase = PhaseFailed -> "cleanupClonedPVC"
    [] OTHER -> "requeue"

\* switch dataMover.Status.Phase: the step an invocation runs.
Handler(phase) ==
  CASE phase = PhaseInitial -> "createClonedPVC"
    [] phase = PhaseCreatingPVC -> "waitForPVCBound"
    [] phase = PhasePVCReady -> "createVerificationJob"
    [] phase = PhaseCreatingPod -> "waitForJobCompletion"
    [] phase = PhaseCleaningUp -> "cleanupClonedPVC"
    [] phase = PhaseCompleted -> "none"
    [] phase = PhaseFailed -> "none"
    [] OTHER -> "requeue"

\* Mutant: any job counts as succeeded (>= for >).
JobSucceeded_AtLeastZero(job) == job.succeeded >= 0

\* if job.Status.Succeeded > 0
JobSucceeded(job) == job.succeeded > 0

\* if job.Status.Failed > 0
JobFailed(job) == job.failed > 0

\* Mutant: the flag is not consulted, the request completes at once.
PhaseAfterSync_NoCleanup(d) == PhaseCompleted

\* Mutant: the flag is not consulted, the clone is always cleaned up.
PhaseAfterSync_AlwaysCleanup(d) == PhaseCleaningUp

\* if dm.Spec.DeletePvcAfterBackup { CleaningUp } else { Completed }
PhaseAfterSync(d) ==
  IF d.spec.deletePvcAfterBackup THEN PhaseCleaningUp ELSE PhaseCompleted

\* Mutant: a failed delete leaves the phase for a retry.
PhaseOnDeleteError_Retry == PhaseCleaningUp

\* The phase written when r.Delete of the clone returns an error.
PhaseOnDeleteError == PhaseFailed

\* Mutant: the store takes a write whatever version it was made from.
VersionMatches_Always(read, stored) == TRUE

\* Optimistic concurrency: the store takes an update only of the version it
\* holds, and answers a conflict otherwise.
VersionMatches(read, stored) == read.resourceVersion = stored.resourceVersion

\* The copy of the request that r.Get handed to this invocation.
dataMover == cache

\* r.Status().Update(ctx, dm) with dm.Status = status, after the writes
\* `prior`: the store takes the status and the invocation returns `ok`, or the
\* write fails (a conflict included) and the invocation returns the error.
\* A write that changes nothing leaves the version as it is.
StatusUpdate(status, ok, prior) ==
  \/ /\ VersionMatches(dataMover, dm)
     /\ dm' = [dataMover EXCEPT
                 !.status = status,
                 !.resourceVersion =
                    IF status = dm.status THEN @ ELSE dm.resourceVersion + 1]
     /\ cache' = IF cachedReads THEN cache ELSE dm'
     /\ result' = ok
     /\ calls' = Append(prior, Call("UpdateStatus", "DataMover", dm.name, TRUE))
     /\ UNCHANGED <<cachedReads, popVars, restVars>>
  \/ /\ dm' = dm
     /\ result' = "error"
     /\ calls' = Append(prior, Call("UpdateStatus", "DataMover", dm.name, FALSE))
     /\ UNCHANGED <<cache, cachedReads, popVars, restVars>>

\* The invocation returns without a (further) store write.
Return(r, prior) ==
  /\ result' = r
  /\ calls' = prior
  /\ dm' = dm
  /\ UNCHANGED <<cache, cachedReads, popVars, restVars>>

\* No request is timed, and no schedule is in the namespace.
NoTimings ==
  /\ requests = EmptyMap
  /\ PhaseStart = {}

NoSchedule ==
  /\ cron = [name |-> ""]
  /\ children = EmptyMap
  /\ createdFor = 0

\* No container of the image runs.
NoRun ==
  /\ env = EmptyMap
  /\ data = {}
  /\ bucket = {}
  /\ script = "none"
  /\ destination_path = ""

\* No claim of the namespace asks for a population.
NoPopulation ==
  /\ pvs = EmptyMap
  /\ populators = {}
  /\ secrets = {}
  /\ handoffWritten = FALSE
  /\ volAtSuccess = ""

\* A new request, and the claims and jobs of its namespace.
InitRequest ==
  /\ NoPopulation
  /\ NoTimings
  /\ NoSchedule
  /\ NoRun
  /\ \E del \in BOOLEAN :
       dm = [name |-> "backup",
             resourceVersion |-> 1,
             spec |-> [sourcePVC |-> SourcePVC,
                       secretName |-> "storage-credentials",
                       deletePvcAfterBackup |-> del],
             status |-> [phase |-> PhaseInitial, restoredPVCName |-> ""]]
  /\ cache = dm
  /\ claimsRead = {}
  /\ \/ pvcs = EmptyMap
     \/ \E c \in SourceClaims : pvcs = Put(EmptyMap, SourcePVC, c)
  /\ jobs = EmptyMap
  /\ now = 1
  /\ result = "none"
  /\ calls = <<>>
  /\ created = {}
  /\ jobSeenSucceeded = FALSE
  /\ deleteFailed = FALSE

\* r.Get reads the store itself.
Init == InitRequest /\ cachedReads = FALSE

\* Phase "": read the source claim, create the clone, record its name.
createClonedPVC ==
  /\ Handler(dataMover.status.phase) = "createClonedPVC"
  /\ claimsRead' = {dataMover.spec.sourcePVC}
  /\ UNCHANGED <<jobs, now, jobSeenSucceeded, deleteFailed>>
  /\ LET clonedPVCName == ClonedPVCName(dataMover.spec.sourcePVC, now) IN
       \/ \* r.Get of the source claim fails: absent, or a store error
          /\ Return("error", <<>>)
          /\ UNCHANGED <<pvcs, created>>
       \/ \* r.Create of the clone fails: the name is taken, or a store error
          /\ dataMover.spec.sourcePVC \in DOMAIN pvcs
          /\ Return("error", <<Call("Create", "PVC", clonedPVCName, FALSE)>>)
          /\ UNCHANGED <<pvcs, created>>
       \/ /\ dataMover.spec.sourcePVC \in DOMAIN pvcs
          /\ clonedPVCName \notin DOMAIN pvcs
          /\ pvcs' = Put(pvcs, clonedPVCName,
                         ClonePVC(dataMover.spec.sourcePVC, pvcs[dataMover.spec.sourcePVC]))
          /\ created' = created \cup {clonedPVCName}
          /\ StatusUpdate([phase |-> PhaseCreatingPVC,
                           restoredPVCName |-> clonedPVCName],
                          "requeue",
                          <<Call("Create", "PVC", clonedPVCName, TRUE)>>)

\* Phase CreatingClonedPVC: poll the clone until it is bound.
waitForPVCBound ==
  /\ Handler(dataMover.status.phase) = "waitForPVCBound"
  /\ claimsRead' = {dataMover.status.restoredPVCName}
  /\ UNCHANGED <<pvcs, jobs, now, created, jobSeenSucceeded, deleteFailed>>
  /\ LET pvcKey == dataMover.status.restoredPVCName IN
       \/ \* r.Get of the clone fails: absent, or a store error
          Return("error", <<>>)
       \/ /\ pvcKey \in DOMAIN pvcs
          /\ pvcs[pvcKey].phase = ClaimBound
          /\ StatusUpdate([dataMover.status EXCEPT !.phase = PhasePVCReady],
                          "requeue", <<>>)
       \/ /\ pvcKey \in DOMAIN pvcs
          /\ pvcs[pvcKey].phase # ClaimBound
          /\ Return("requeueAfter15s", <<>>)

\* Phase ClonedPVCReady: create the sync job, or accept the one present.
createVerificationJob ==
  /\ Handler(dataMover.status.phase) = "createVerificationJob"
  /\ claimsRead' = {}
  /\ UNCHANGED <<pvcs, now, created, jobSeenSucceeded, deleteFailed>>
  /\ LET jobName == JobName(dataMover.status.restoredPVCName) IN
       \/ \* r.Get of the job fails with a store error
          /\ Return("error", <<>>)
          /\ UNCHANGED jobs
       \/ \* not found, and r.Create of the job fails
          /\ jobName \notin DOMAIN jobs
          /\ Return("error", <<Call("Create", "Job", jobName, FALSE)>>)
          /\ UNCHANGED jobs
       \/ \* not found: create it
          /\ jobName \notin DOMAIN jobs
          /\ jobs' = Put(jobs, jobName, VerificationJob(dataMover))
          /\ StatusUpdate([dataMover.status EXCEPT !.phase = PhaseCreatingPod],
                          "requeue",
                          <<Call("Create", "Job", jobName, TRUE)>>)
       \/ \* the job already exists: move to the next step
          /\ jobName \in DOMAIN jobs
          /\ UNCHANGED jobs
          /\ StatusUpdate([dataMover.status EXCEPT !.phase = PhaseCreatingPod],
                          "requeue", <<>>)

\* Phase CreatingPod: poll the sync job.
waitForJobCompletion ==
  /\ Handler(dataMover.status.phase) = "waitForJobCompletion"
  /\ claimsRead' = {}
  /\ UNCHANGED <<pvcs, jobs, now, created, deleteFailed>>
  /\ LET jobKey == JobName(dataMover.status.restoredPVCName) IN
       \/ \* r.Get of the job fails: absent, or a store error
          /\ Return("error", <<>>)
          /\ UNCHANGED jobSeenSucceeded
       \/ /\ jobKey \in DOMAIN jobs
          /\ JobSucceeded(jobs[jobKey])
          /\ jobSeenSucceeded' = (jobSeenSucceeded \/ jobs[jobKey].succeeded > 0)
          /\ StatusUpdate([dataMover.status EXCEPT !.phase = PhaseAfterSync(dataMover)],
                          "requeue", <<>>)
       \/ /\ jobKey \in DOMAIN jobs
          /\ ~JobSucceeded(jobs[jobKey])
          /\ JobFailed(jobs[jobKey])
          /\ UNCHANGED jobSeenSucceeded
          /\ StatusUpdate([dataMover.status EXCEPT !.phase = PhaseFailed], "done", <<>>)
       \/ \* still running or pending
          /\ jobKey \in DOMAIN jobs
          /\ ~JobSucceeded(jobs[jobKey])
          /\ ~JobFailed(jobs[jobKey])
          /\ UNCHANGED jobSeenSucceeded
          /\ Return("requeueAfter15s", <<>>)

\* Phase CleaningUp: delete the clone.
cleanupClonedPVC ==
  /\ Handler(dataMover.status.phase) = "cleanupClonedPVC"
  /\ claimsRead' = {dataMover.status.restoredPVCName} \ {""}
  /\ UNCHANGED <<jobs, now, created, jobSeenSucceeded>>
  /\ LET pvcKey == dataMover.status.restoredPVCName
         completed == [dataMover.status EXCEPT !.phase = PhaseCompleted]
     IN IF pvcKey = ""
        THEN \* no clone recorded
             /\ StatusUpdate(completed, "done", <<>>)
             /\ UNCHANGED <<pvcs, deleteFailed>>
        ELSE \/ \* r.Get of the clone: not found, already deleted
                /\ pvcKey \notin DOMAIN pvcs
                /\ StatusUpdate(completed, "done", <<>>)
                /\ UNCHANGED <<pvcs, deleteFailed>>
             \/ \* r.Get of the clone fails with a store error
                /\ Return("error", <<>>)
                /\ UNCHANGED <<pvcs, deleteFailed>>
             \/ \* r.Delete of the clone fails
                /\ pvcKey \in DOMAIN pvcs
                /\ UNCHANGED pvcs
                /\ deleteFailed' = TRUE
                /\ StatusUpdate([dataMover.status EXCEPT !.phase = PhaseOnDeleteError],
                                "done",
                                <<Call("Delete", "PVC", pvcKey, FALSE)>>)
             \/ /\ pvcKey \in DOMAIN pvcs
                /\ pvcs' = Remove(pvcs, pvcKey)
                /\ UNCHANGED deleteFailed
                /\ StatusUpdate(completed, "done",
                                <<Call("Delete", "PVC", pvcKey, TRUE)>>)

\* Phase Completed or Failed: do nothing.
reconcileTerminal ==
  /\ Handler(dataMover.status.phase) = "none"
  /\ claimsRead' = {}
  /\ Return("done", <<>>)
  /\ UNCHANGED <<pvcs, jobs, now, created, jobSeenSucceeded, deleteFailed>>

\* r.Get of the DataMover itself fails with a store error.
reconcileGetFailed ==
  /\ claimsRead' = {}
  /\ Return("error", <<>>)
  /\ UNCHANGED <<pvcs, jobs, now, created, jobSeenSucceeded, deleteFailed>>

Reconcile ==
  \/ reconcileGetFailed
  \/ createClonedPVC
  \/ waitForPVCBound
  \/ createVerificationJob
  \/ waitForJobCompletion
  \/ cleanupClonedPVC
  \/ reconcileTerminal

\* ----------------------------------------------------------- the cluster
ClusterStep ==
  /\ result' = "none"
  /\ calls' = <<>>
  /\ claimsRead' = {}
  /\ UNCHANGED <<dm, created, jobSeenSucceeded, deleteFailed, cache,
                 cachedReads, popVars, restVars>>

\* A second passes.
Tick ==
  /\ now < MaxTime
  /\ now' = now + 1
  /\ ClusterStep
  /\ UNCHANGED <<pvcs, jobs>>

\* The provisioner binds a pending claim.
PVCBound ==
  /\ \E n \in DOMAIN pvcs :
       /\ pvcs[n].phase = ClaimPending
       /\ pvcs' = [pvcs EXCEPT ![n].phase = ClaimBound]
  /\ ClusterStep
  /\ UNCHANGED <<jobs, now>>

\* A user deletes a clone.
PVCDeleted ==
  /\ \E n \in DOMAIN pvcs :
       /\ pvcs[n].dataSource # ""
       /\ pvcs' = Remove(pvcs, n)
  /\ ClusterStep
  /\ UNCHANGED <<jobs, now>>

\* A pod of the job fails: the job controller counts it, and retries while
\* the failures are within the backoff limit.
JobPodFailed ==
  /\ \E j \in DOMAIN jobs :
       /\ jobs[j].succeeded = 0
       /\ jobs[j].failed <= jobs[j].backoffLimit
       /\ jobs[j].claimName \in DOMAIN pvcs
       /\ pvcs[jobs[j].claimName].phase = ClaimBound
       /\ jobs' = [jobs EXCEPT ![j].failed = @ + 1]
  /\ ClusterStep
  /\ UNCHANGED <<pvcs, now>>

\* A pod of the job exits 0.
JobPodSucceeded ==
  /\ \E j \in DOMAIN jobs :
       /\ jobs[j].succeeded = 0
       /\ jobs[j].failed <= jobs[j].backoffLimit
       /\ jobs[j].claimName \in DOMAIN pvcs
       /\ pvcs[jobs[j].claimName].phase = ClaimBound
       /\ jobs' = [jobs EXCEPT ![j].succeeded = 1]
  /\ ClusterStep
  /\ UNCHANGED <<pvcs, now>>

\* A user changes the size the source claim requests.
SourceResized ==
  /\ \E n \in DOMAIN pvcs, size \in SourceSizes :
       /\ pvcs[n].dataSource = ""
       /\ size # pvcs[n].size
       /\ pvcs' = [pvcs EXCEPT ![n].size = size]
  /\ ClusterStep
  /\ UNCHANGED <<jobs, now>>

Next ==
  \/ Reconcile
  \/ Tick
  \/ PVCBound
  \/ PVCDeleted
  \/ SourceResized
  \/ JobPodFailed
  \/ JobPodSucceeded

Spec == Init /\ [][Next]_vars

\* r.Get reads the client's cache, which the watch brings up to date later:
\* an invocation may act on a copy of the request older than the store's.
StaleInit == InitRequest /\ cachedReads = TRUE

\* The watch delivers the store's version of the request to the cache.
CacheSync ==
  /\ cachedReads
  /\ cache # dm
  /\ cache' = dm
  /\ result' = "none"
  /\ calls' = <<>>
  /\ claimsRead' = {}
  /\ UNCHANGED <<dm, pvcs, jobs, now, created, jobSeenSucceeded, deleteFailed,
                 cachedReads, popVars, restVars>>

StaleNext == Next \/ CacheSync

StaleSpec == StaleInit /\ [][StaleNext]_vars

\* Invocations keep being delivered: a returned error, a requeue and a change
\* of the request all lead to another invocation.
FairSpec == Spec /\ WF_vars(Reconcile)

\* The premises of a run to completion: nobody deletes the clone, the sync
\* job's pods fail only within its retry budget and one of them eventually
\* exits 0, the provisioner eventually binds a pending claim, and invocations
\* keep being delivered with their store calls eventually succeeding.
JobPodFailedWithinBudget ==
  /\ JobPodFailed
  /\ \A j \in DOMAIN jobs' : jobs'[j].failed <= jobs'[j].backoffLimit

ReconcileWithoutError ==
  /\ Reconcile
  /\ result' # "error"
  /\ \A i \in 1..Len(calls') : calls'[i].ok

LiveNext ==
  \/ Reconcile
  \/ Tick
  \/ PVCBound
  \/ SourceResized
  \/ JobPodFailedWithinBudget
  \/ JobPodSucceeded

LiveSpec ==
  /\ Init
  /\ [][LiveNext]_vars
  /\ SF_vars(ReconcileWithoutError)
  /\ WF_vars(Tick)
  /\ WF_vars(PVCBound)
  /\ WF_vars(JobPodSucceeded)

\* ------------------------------------------------- the volume populator
\* DataMoverPopulatorReconciler: a target claim whose dataSourceRef names a
\* DataMoverPopulator is filled through a prime claim and a population job,
\* and the prime claim's volume is then handed to the target.  One action is
\* one invocation of Reconcile, named after the function it returns from;
\* each function is the set of the outcomes it can return from a store.

\* maxRetries := 3 and maxPVCRetries := 3: attempts of a conflicting update.
MaxRetries == 3

\* backoffLimit := int32(2) of the population job.
PopulationBackoffLimit == 2

\* The target claim, the populator its dataSourceRef names, and the secret
\* the populator names.
TargetPVC == "restore"
PopulatorName == "from-bucket"
PopulatorSecret == "bucket-credentials"
PopulatorPath == "s3://bucket/path/"

\* Annotation keys, without their datamover.a-cup-of.coffee/ prefix.
AnnPopulated == "populated"
AnnPopulating == "populating"
AnnCleanup == "cleanup-in-progress"

\* fmt.Sprintf("%s-prime", pvc.Name)
PrimePVCName(pvcName) == pvcName \o "-prime"

\* fmt.Sprintf("datamover-populator-%s", primePVCName)
PopulationJobName(primePVCName) == "datamover-populator-" \o primePVCName

\* The name the provisioner gives the volume it makes for a claim.
PVName(claim) == "pvc-" \o claim

\* value, exists := annotations[key]; exists && value == "true"
IsTrue(annotations, key) ==
  key \in DOMAIN annotations /\ annotations[key] = "true"

\* One store write of an invocation of the populator, with what it changes.
Write(op, kind, name, ok, change) ==
  [op |-> op, kind |-> kind, name |-> name, ok |-> ok, change |-> change]

\* The prime claim: the target's storage request, no dataSourceRef, no owner.
PrimePVC(pvcName, pvc, populator) ==
  [phase |-> ClaimPending,
   volumeName |-> "",
   annotations |-> EmptyMap,
   deleting |-> FALSE,
   dataSourceRef |-> "",
   owner |-> "",
   accessModes |-> pvc.accessModes,
   size |-> pvc.size,
   storageClassName |-> pvc.storageClassName,
   volumeMode |-> pvc.volumeMode,
   labels |-> [primeFor |-> pvcName, populator |-> populator]]

\* The population job: owned by the prime claim, which is its only data
\* volume; the sync tool runs in population mode from the populator's path.
PopulationJob(primePVCName) ==
  [backoffLimit |-> PopulationBackoffLimit,
   claimName |-> primePVCName,
   owner |-> primePVCName,
   secretName |-> PopulatorSecret,
   sourcePath |-> PopulatorPath,
   populationMode |-> "true",
   initContainers |-> <<"chown-data">>,
   containers |-> <<"population">>,
   succeeded |-> 0,
   failed |-> 0,
   deleting |-> FALSE]

\* Mutant: the hand-off is made whatever the phases of the two claims.
HandOffDue_Always(originalPVC, primePVC) == TRUE

\* if originalPVC.Status.Phase == ClaimPending &&
\*    primePVC.Status.Phase == ClaimBound
HandOffDue(originalPVC, primePVC) ==
  originalPVC.phase = ClaimPending /\ primePVC.phase = ClaimBound

\* Mutant: the volume's update leaves its claim reference in place.
ClearedClaimRef_Kept(pv) == pv

\* freshPV.Spec.ClaimRef = nil
ClearedClaimRef(pv) == [pv EXCEPT !.claimRef = ""]

\* The store an invocation works on, and what an invocation returns: the
\* store it leaves, its result and the writes it issued.
Store == [pvcs |-> pvcs, jobs |-> jobs, pvs |-> pvs]

Out(s, r, cs) ==
  [pvcs |-> s.pvcs, jobs |-> s.jobs, pvs |-> s.pvs, result |-> r, calls |-> cs]

\* i refused attempts of an update, each answered with a conflict.
RECURSIVE Conflicts(_, _, _)
Conflicts(i, kind, name) ==
  IF i = 0 THEN <<>>
  ELSE Append(Conflicts(i - 1, kind, name),
              Write("Update", kind, name, FALSE, "conflict"))

\* Mutant: the last update sets populated=true and removes nothing.
MarkPopulated_KeepsOthers(s, pvcName, cs) ==
  {Out(s, "error", cs),
   Out([s EXCEPT !.pvcs[pvcName].annotations = Put(@, AnnPopulated, "true")],
       "requeueAfter5s",
       Append(cs, Write("Update", "PVC", pvcName, TRUE, AnnPopulated)))}

\* finalizePopulation, last loop: populated=true on a fresh copy of the
\* target, populating and cleanup-in-progress removed; a conflict is retried.
MarkPopulated(s, pvcName, cs) ==
  LET populated ==
        [s EXCEPT !.pvcs[pvcName].annotations =
           Put(Remove(Remove(@, AnnPopulating), AnnCleanup),
               AnnPopulated, "true")]
  IN UNION {
       LET tried == cs \o Conflicts(i, "PVC", pvcName) IN
         {Out(s, "error", tried),
          Out(s, "error",
              Append(tried, Write("Update", "PVC", pvcName, FALSE, AnnPopulated))),
          Out(populated, "requeueAfter5s",
              Append(tried, Write("Update", "PVC", pvcName, TRUE, AnnPopulated)))}
       : i \in 0..(MaxRetries - 1)}
     \cup {Out(s, "error", cs \o Conflicts(MaxRetries, "PVC", pvcName))}

\* Mutant: the first loop falls through to the last step when its attempts
\* are used up.
ClearClaimRef_GoesOn(s, pvcName, primePVCName, cs) ==
  MarkPopulated(s, pvcName,
                cs \o Conflicts(MaxRetries, "PV", s.pvcs[primePVCName].volumeName))

\* finalizePopulation, first loop: the claim reference of the prime claim's
\* volume is cleared on a fresh copy of the volume; a conflict is retried.
ClearClaimRef(s, pvcName, primePVCName, cs) ==
  LET volume == s.pvcs[primePVCName].volumeName IN
    IF volume \notin DOMAIN s.pvs
    THEN {Out(s, "error", cs)}
    ELSE LET cleared == [s EXCEPT !.pvs[volume] = ClearedClaimRef(@)] IN
           UNION {
             LET tried == cs \o Conflicts(i, "PV", volume) IN
               {Out(s, "error", tried),
                Out(s, "error",
                    Append(tried, Write("Update", "PV", volume, FALSE, "claimRef")))}
               \cup MarkPopulated(cleared, pvcName,
                      Append(tried, Write("Update", "PV", volume, TRUE, "claimRef")))
             : i \in 0..(MaxRetries - 1)}
           \cup {Out(s, "error", cs \o Conflicts(MaxRetries, "PV", volume))}

\* finalizePopulation, the job being gone: delete the prime claim unless it
\* is being deleted, then go on at once.
DeletePrime(s, pvcName, primePVCName, cs) ==
  LET deleted == [s EXCEPT !.pvcs[primePVCName].deleting = TRUE] IN
    {Out(s, "error", cs)}
    \cup IF s.pvcs[primePVCName].deleting
         THEN ClearClaimRef(s, pvcName, primePVCName, cs)
         ELSE {Out(s, "error",
                   Append(cs, Write("Delete", "PVC", primePVCName, FALSE, "delete")))}
              \cup ClearClaimRef(deleted, pvcName, primePVCName,
                     Append(cs, Write("Delete", "PVC", primePVCName, TRUE, "delete")))

\* Mutant: the job is deleted and the prime claim with it, at once.
DeleteJob_SkipsWait(s, pvcName, primePVCName, cs) ==
  DeletePrime(s, pvcName, primePVCName,
              Append(cs, Write("Delete", "Job",
                               PopulationJobName(primePVCName), TRUE, "delete")))

\* finalizePopulation, after the hand-off write: delete the job and come back
\* in 3s while it is there.
DeleteJob(s, pvcName, primePVCName, cs) ==
  LET jobName == PopulationJobName(primePVCName)
      deleted == [s EXCEPT !.jobs[jobName].deleting = TRUE]
  IN {Out(s, "error", cs)}
     \cup IF jobName \in DOMAIN s.jobs
          THEN IF s.jobs[jobName].deleting
               THEN {Out(s, "requeueAfter3s", cs)}
               ELSE {Out(s, "error",
                         Append(cs, Write("Delete", "Job", jobName, FALSE, "delete"))),
                     Out(deleted, "requeueAfter3s",
                         Append(cs, Write("Delete", "Job", jobName, TRUE, "delete")))}
          ELSE DeletePrime(s, pvcName, primePVCName, cs)

\* finalizePopulation, the hand-off: the prime claim's volume name and
\* cleanup-in-progress=true are written on a fresh copy of the target.
HandOff(s, pvcName, primePVCName, cs) ==
  LET volume == s.pvcs[primePVCName].volumeName
      handed == [s EXCEPT !.pvcs[pvcName].volumeName = volume,
                          !.pvcs[pvcName].annotations = Put(@, AnnCleanup, "true")]
  IN {Out(s, "error", cs)}
     \cup IF volume \in DOMAIN s.pvs
          THEN {Out(s, "error",
                    Append(cs, Write("Update", "PVC", pvcName, FALSE, "hand-off")))}
               \cup DeleteJob(handed, pvcName, primePVCName,
                      Append(cs, Write("Update", "PVC", pvcName, TRUE, "hand-off")))
          ELSE {}

\* finalizePopulation(originalPVC, primePVC, populator): what it can return.
FinalizeReturns(s, pvcName, primePVCName, populator) ==
  LET originalPVC == s.pvcs[pvcName]
      primePVC == s.pvcs[primePVCName]
      primeUpdated == AnnPopulated \notin DOMAIN primePVC.annotations
      originalUpdated == AnnPopulating \notin DOMAIN originalPVC.annotations
      s1 == IF primeUpdated
            THEN [s EXCEPT !.pvcs[primePVCName].annotations =
                    Put(Put(@, AnnPopulated, "true"), "populated-by", populator)]
            ELSE s
      c1 == IF primeUpdated
            THEN <<Write("Update", "PVC", primePVCName, TRUE, AnnPopulated)>>
            ELSE <<>>
      s2 == IF originalUpdated
            THEN [s1 EXCEPT !.pvcs[pvcName].annotations =
                    Put(Put(Put(@, AnnPopulating, "true"),
                            "populated-by", populator),
                        "prime-pvc", primePVCName)]
            ELSE s1
      c2 == IF originalUpdated
            THEN Append(c1, Write("Update", "PVC", pvcName, TRUE, AnnPopulating))
            ELSE c1
  IN (IF primeUpdated
      THEN {Out(s, "error",
                <<Write("Update", "PVC", primePVCName, FALSE, AnnPopulated)>>)}
      ELSE {})
     \cup (IF originalUpdated
           THEN {Out(s1, "error",
                     Append(c1, Write("Update", "PVC", pvcName, FALSE, AnnPopulating)))}
           ELSE {})
     \cup (IF HandOffDue(originalPVC, primePVC)
           THEN HandOff(s2, pvcName, primePVCName, c2)
           ELSE {Out(s2, "done", c2)})

\* Mutant: finalizePopulation is called for a job that is there, finished or
\* not.
ReachesFinalize_AnyJob(s, pvcName) ==
  /\ ~IsTrue(s.pvcs[pvcName].annotations, AnnPopulated)
  /\ PrimePVCName(pvcName) \in DOMAIN s.pvcs
  /\ PopulationJobName(PrimePVCName(pvcName)) \in DOMAIN s.jobs

\* ensurePopulationJob reaches a call of finalizePopulation: cleanup is in
\* progress and the prime claim is there, or the job of a bound prime claim
\* has succeeded.
ReachesFinalize(s, pvcName) ==
  LET annotations == s.pvcs[pvcName].annotations
      primePVCName == PrimePVCName(pvcName)
      jobName == PopulationJobName(primePVCName)
  IN /\ ~IsTrue(annotations, AnnPopulated)
     /\ primePVCName \in DOMAIN s.pvcs
     /\ \/ IsTrue(annotations, AnnCleanup)
        \/ /\ ~s.pvcs[primePVCName].deleting
           /\ s.pvcs[primePVCName].phase = ClaimBound
           /\ jobName \in DOMAIN s.jobs
           /\ s.jobs[jobName].succeeded > 0

\* Mutant: no job is created.
CreateJobReturns_Never(s, primePVCName) == {Out(s, "error", <<>>)}

\* createPopulationJob and r.Create of the job.
CreateJobReturns(s, primePVCName) ==
  LET jobName == PopulationJobName(primePVCName)
      withJob == [s EXCEPT !.jobs = Put(@, jobName, PopulationJob(primePVCName))]
  IN {Out(s, "error", <<>>)}
     \cup IF PopulatorSecret \in secrets
          THEN {Out(s, "error", <<Write("Create", "Job", jobName, FALSE, "create")>>),
                Out(withJob, "requeueAfter1m",
                    <<Write("Create", "Job", jobName, TRUE, "create")>>)}
          ELSE {}

\* Mutant: ensurePopulationJob without its check of cleanup-in-progress.
EnsureReturns_NoCleanupCheck(s, pvcName, populator) ==
  LET pvc == s.pvcs[pvcName]
      primePVCName == PrimePVCName(pvcName)
      jobName == PopulationJobName(primePVCName)
      withPrime == [s EXCEPT !.pvcs =
                      Put(@, primePVCName, PrimePVC(pvcName, pvc, populator))]
  IN IF IsTrue(pvc.annotations, AnnPopulated)
     THEN {Out(s, "done", <<>>)}
     ELSE IF primePVCName \notin DOMAIN s.pvcs
     THEN {Out(withPrime, "requeueAfter10s",
               <<Write("Create", "PVC", primePVCName, TRUE, "create")>>)}
     ELSE IF s.pvcs[primePVCName].deleting
     THEN {Out(s, "requeueAfter5s", <<>>)}
     ELSE IF s.pvcs[primePVCName].phase # ClaimBound
     THEN {Out(s, "requeueAfter10s", <<>>)}
     ELSE IF jobName \notin DOMAIN s.jobs
     THEN CreateJobReturns(s, primePVCName)
     ELSE IF s.jobs[jobName].succeeded > 0
     THEN {}
     ELSE {Out(s, "requeueAfter1m", <<>>)}

\* ensurePopulationJob(pvc, populator): what it can return itself.
EnsureReturns(s, pvcName, populator) ==
  LET pvc == s.pvcs[pvcName]
      primePVCName == PrimePVCName(pvcName)
      jobName == PopulationJobName(primePVCName)
      withPrime == [s EXCEPT !.pvcs =
                      Put(@, primePVCName, PrimePVC(pvcName, pvc, populator))]
      jobDeleted == [s EXCEPT !.jobs[jobName].deleting = TRUE]
  IN IF IsTrue(pvc.annotations, AnnPopulated)
     THEN {Out(s, "done", <<>>)}
     ELSE IF IsTrue(pvc.annotations, AnnCleanup)
     THEN \* r.Get of the prime claim fails: absent, or a store error
          {Out(s, "requeueAfter3s", <<>>)}
     ELSE {Out(s, "error", <<>>)}
          \cup
          IF primePVCName \notin DOMAIN s.pvcs
          THEN IF IsTrue(pvc.annotations, AnnPopulating)
               THEN {Out(s, "requeueAfter5s", <<>>)}
               ELSE {Out(s, "error",
                         <<Write("Create", "PVC", primePVCName, FALSE, "create")>>),
                     Out(withPrime, "requeueAfter10s",
                         <<Write("Create", "PVC", primePVCName, TRUE, "create")>>)}
          ELSE IF s.pvcs[primePVCName].deleting
          THEN {Out(s, "requeueAfter5s", <<>>)}
          ELSE IF s.pvcs[primePVCName].phase # ClaimBound
          THEN {Out(s, "requeueAfter10s", <<>>)}
          ELSE IF jobName \notin DOMAIN s.jobs
          THEN CreateJobReturns(s, primePVCName)
          ELSE IF s.jobs[jobName].succeeded > 0
          THEN {}
          ELSE IF s.jobs[jobName].failed > 0
          THEN {Out(s, "error",
                    <<Write("Delete", "Job", jobName, FALSE, "delete")>>),
                Out(jobDeleted, "requeueAfter2m",
                    <<Write("Delete", "Job", jobName, TRUE, "delete")>>)}
          ELSE {Out(s, "requeueAfter1m", <<>>)}

\* Reconcile goes on to ensurePopulationJob: the claim names a populator
\* that is there, and is not both populated and rid of its prime claim.
ReachesEnsure(s, pvcName) ==
  /\ pvcName \in DOMAIN s.pvcs
  /\ s.pvcs[pvcName].dataSourceRef \in populators
  /\ ~(/\ IsTrue(s.pvcs[pvcName].annotations, AnnPopulated)
       /\ PrimePVCName(pvcName) \notin DOMAIN s.pvcs)

\* Mutant: Reconcile that retries for a missing populator whatever the claim.
ReconcileReturns_KeepsRetrying(s, pvcName) ==
  {Out(s, "error", <<>>)}
  \cup
  IF pvcName \notin DOMAIN s.pvcs
  THEN {Out(s, "done", <<>>)}
  ELSE LET pvc == s.pvcs[pvcName] IN
    IF pvc.dataSourceRef = ""
    THEN {Out(s, "done", <<>>)}
    ELSE IF pvc.dataSourceRef \notin populators
    THEN {Out(s, "requeueAfter10s", <<>>)}
    ELSE IF /\ IsTrue(pvc.annotations, AnnPopulated)
            /\ PrimePVCName(pvcName) \notin DOMAIN s.pvcs
    THEN {Out(s, "done", <<>>)}
    ELSE {}

\* Reconcile(req): what it can return itself.
ReconcileReturns(s, pvcName) ==
  {Out(s, "error", <<>>)}
  \cup
  IF pvcName \notin DOMAIN s.pvcs
  THEN {Out(s, "done", <<>>)}
  ELSE LET pvc == s.pvcs[pvcName] IN
    IF pvc.dataSourceRef = ""
    THEN {Out(s, "done", <<>>)}
    ELSE IF pvc.dataSourceRef \notin populators
    THEN IF pvc.phase = ClaimBound \/ IsTrue(pvc.annotations, AnnPopulated)
         THEN {Out(s, "done", <<>>)}
         ELSE {Out(s, "requeueAfter10s", <<>>)}
    ELSE IF /\ IsTrue(pvc.annotations, AnnPopulated)
            /\ PrimePVCName(pvcName) \notin DOMAIN s.pvcs
    THEN {Out(s, "done", <<>>)}
    ELSE {}

\* A hand-off write that the store accepted.
HandOffIn(cs) ==
  \E i \in 1..Len(cs) : cs[i].change = "hand-off" /\ cs[i].ok

\* The invocation returns the outcome o.
Returns(o) ==
  /\ pvcs' = o.pvcs
  /\ jobs' = o.jobs
  /\ pvs' = o.pvs
  /\ result' = o.result
  /\ calls' = o.calls
  /\ handoffWritten' = (handoffWritten \/ HandOffIn(o.calls))
  /\ UNCHANGED <<dmVars, restVars, populators, secrets, volAtSuccess>>

\* An invocation that returns from Reconcile itself.
PopulatorReconcile ==
  \E req \in DOMAIN pvcs :
    \E o \in ReconcileReturns(Store, req) : Returns(o)

\* An invocation that returns from ensurePopulationJob.
ensurePopulationJob ==
  \E req \in DOMAIN pvcs :
    /\ ReachesEnsure(Store, req)
    /\ \E o \in EnsureReturns(Store, req, pvcs[req].dataSourceRef) : Returns(o)

\* An invocation that returns from finalizePopulation.
finalizePopulation ==
  \E req \in DOMAIN pvcs :
    /\ ReachesEnsure(Store, req)
    /\ ReachesFinalize(Store, req)
    /\ \E o \in FinalizeReturns(Store, req, PrimePVCName(req),
                                pvcs[req].dataSourceRef) : Returns(o)

\* ------------------------------------------- the cluster of a population
PopulationClusterStep ==
  /\ result' = "none"
  /\ calls' = <<>>
  /\ UNCHANGED <<dmVars, restVars, populators, secrets, handoffWritten>>

\* The provisioner makes a volume for a pending claim that names no data
\* source, and binds the two.
ClaimProvisioned ==
  /\ \E n \in DOMAIN pvcs :
       /\ pvcs[n].dataSourceRef = ""
       /\ pvcs[n].phase = ClaimPending
       /\ ~pvcs[n].deleting
       /\ PVName(n) \notin DOMAIN pvs
       /\ pvcs' = [pvcs EXCEPT ![n].phase = ClaimBound,
                               ![n].volumeName = PVName(n)]
       /\ pvs' = Put(pvs, PVName(n), [claimRef |-> n])
  /\ PopulationClusterStep
  /\ UNCHANGED <<jobs, volAtSuccess>>

\* The binder binds a volume that no claim holds to the pending claim that
\* names it.
VolumeBound ==
  /\ \E n \in DOMAIN pvcs :
       /\ pvcs[n].phase = ClaimPending
       /\ ~pvcs[n].deleting
       /\ pvcs[n].volumeName \in DOMAIN pvs
       /\ pvs[pvcs[n].volumeName].claimRef = ""
       /\ pvs' = [pvs EXCEPT ![pvcs[n].volumeName].claimRef = n]
       /\ pvcs' = [pvcs EXCEPT ![n].phase = ClaimBound]
  /\ PopulationClusterStep
  /\ UNCHANGED <<jobs, volAtSuccess>>

\* A claim that is being deleted goes once its protection is lifted.
ClaimRemoved ==
  /\ \E n \in DOMAIN pvcs :
       /\ pvcs[n].deleting
       /\ pvcs' = Remove(pvcs, n)
  /\ PopulationClusterStep
  /\ UNCHANGED <<jobs, pvs, volAtSuccess>>

\* A volume whose claim is gone is released and reclaimed.
VolumeReclaimed ==
  /\ \E v \in DOMAIN pvs :
       /\ pvs[v].claimRef # ""
       /\ pvs[v].claimRef \notin DOMAIN pvcs
       /\ pvs' = Remove(pvs, v)
  /\ PopulationClusterStep
  /\ UNCHANGED <<pvcs, jobs, volAtSuccess>>

\* A job that is being deleted goes.
JobRemoved ==
  /\ \E j \in DOMAIN jobs :
       /\ jobs[j].deleting
       /\ jobs' = Remove(jobs, j)
  /\ PopulationClusterStep
  /\ UNCHANGED <<pvcs, pvs, volAtSuccess>>

\* The job's pod can run: the job is live and its claim is bound.
PopulationPodRuns(j) ==
  /\ ~jobs[j].deleting
  /\ jobs[j].succeeded = 0
  /\ jobs[j].failed <= jobs[j].backoffLimit
  /\ jobs[j].claimName \in DOMAIN pvcs
  /\ pvcs[jobs[j].claimName].phase = ClaimBound

\* A pod of the population job fails.
PopulationPodFailed ==
  /\ \E j \in DOMAIN jobs :
       /\ PopulationPodRuns(j)
       /\ jobs' = [jobs EXCEPT ![j].failed = @ + 1]
  /\ PopulationClusterStep
  /\ UNCHANGED <<pvcs, pvs, volAtSuccess>>

\* A pod of the population job exits 0: the prime claim's volume is filled.
PopulationPodSucceeded ==
  /\ \E j \in DOMAIN jobs :
       /\ PopulationPodRuns(j)
       /\ jobs' = [jobs EXCEPT ![j].succeeded = 1]
       /\ volAtSuccess' = pvcs[jobs[j].claimName].volumeName
  /\ PopulationClusterStep
  /\ UNCHANGED <<pvcs, pvs>>

\* A target claim as a user makes it: pending, as the provisioner leaves a
\* claim with a populator for its data source, or bound to a volume of its
\* own where the cluster does not honour the data source.
TargetClaims ==
  {[phase |-> ph,
    volumeName |-> IF ph = ClaimBound THEN PVName(TargetPVC) ELSE "",
    annotations |-> EmptyMap,
    deleting |-> FALSE,
    dataSourceRef |-> PopulatorName,
    accessModes |-> "ReadWriteOnce",
    size |-> size,
    storageClassName |-> "standard",
    volumeMode |-> "Filesystem"] :
     ph \in {ClaimPending, ClaimBound}, size \in SourceSizes}

\* No DataMover request is in the namespace.
NoRequest ==
  /\ dm = [name |-> "",
           resourceVersion |-> 0,
           spec |-> [sourcePVC |-> "", secretName |-> "",
                     deletePvcAfterBackup |-> FALSE],
           status |-> [phase |-> PhaseInitial, restoredPVCName |-> ""]]
  /\ cache = dm
  /\ cachedReads = FALSE
  /\ claimsRead = {}
  /\ now = 1
  /\ created = {}
  /\ jobSeenSucceeded = FALSE
  /\ deleteFailed = FALSE

PopInit ==
  /\ NoRequest
  /\ NoTimings
  /\ NoSchedule
  /\ NoRun
  /\ \E target \in TargetClaims :
       /\ pvcs = Put(EmptyMap, TargetPVC, target)
       /\ pvs = IF target.phase = ClaimBound
                THEN Put(EmptyMap, target.volumeName, [claimRef |-> TargetPVC])
                ELSE EmptyMap
  /\ populators \in {{}, {PopulatorName}}
  /\ secrets \in {{}, {PopulatorSecret}}
  /\ jobs = EmptyMap
  /\ result = "none"
  /\ calls = <<>>
  /\ handoffWritten = FALSE
  /\ volAtSuccess = ""

PopNext ==
  \/ PopulatorReconcile
  \/ ensurePopulationJob
  \/ finalizePopulation
  \/ ClaimProvisioned
  \/ VolumeBound
  \/ ClaimRemoved
  \/ VolumeReclaimed
  \/ JobRemoved
  \/ PopulationPodFailed
  \/ PopulationPodSucceeded

PopSpec == PopInit /\ [][PopNext]_vars

\* A user deletes the DataMoverPopulator that claims refer to.
PopulatorRemoved ==
  /\ populators # {}
  /\ populators' = {}
  /\ result' = "none"
  /\ calls' = <<>>
  /\ UNCHANGED <<dmVars, restVars, pvcs, jobs, pvs, secrets, handoffWritten, volAtSuccess>>

PopRemovalNext ==
  \/ PopNext
  \/ PopulatorRemoved

\* The population machine in a namespace whose populator can go at any time.
PopRemovalSpec == PopInit /\ [][PopRemovalNext]_vars

\* What an invocation for the target claim can return, wherever it returns
\* from.
TargetReturns ==
  ReconcileReturns(Store, TargetPVC)
  \cup (IF ReachesEnsure(Store, TargetPVC)
        THEN EnsureReturns(Store, TargetPVC, pvcs[TargetPVC].dataSourceRef)
             \cup (IF ReachesFinalize(Store, TargetPVC)
                   THEN FinalizeReturns(Store, TargetPVC, PrimePVCName(TargetPVC),
                                        pvcs[TargetPVC].dataSourceRef)
                   ELSE {})
        ELSE {})

\* The outcome of an invocation all of whose store operations succeeded: no
\* error is returned, no write is refused, and the requeue of 3s that
\* ensurePopulationJob answers to a failed r.Get of the prime claim is not
\* given for a prime claim that is there.
StoreSucceeded(o) ==
  /\ o.result # "error"
  /\ \A i \in 1..Len(o.calls) : o.calls[i].ok
  /\ ~(/\ o.result = "requeueAfter3s"
       /\ o.calls = <<>>
       /\ PrimePVCName(TargetPVC) \in DOMAIN pvcs)

ReconcileTargetWithoutError ==
  \E o \in TargetReturns : StoreSucceeded(o) /\ Returns(o)

\* The populator under fair scheduling: the target claim is reconciled again
\* and again (every outcome requeues it or is followed by an event of an
\* owned object), store operations succeed again and again, and the cluster's
\* controllers do their work.
PopLiveSpec ==
  /\ PopInit
  /\ [][PopNext]_vars
  /\ SF_vars(ReconcileTargetWithoutError)
  /\ WF_vars(ClaimProvisioned)
  /\ WF_vars(VolumeBound)
  /\ WF_vars(ClaimRemoved)
  /\ WF_vars(JobRemoved)
  /\ SF_vars(PopulationPodSucceeded)

\* ------------------------------------------------ the timing side-table
\* DataMoverReconciler keeps PhaseStart, a map from "<namespace>/<name>-<phase>"
\* to the time the phase began, for all requests it reconciles; it lives in
\* the manager's memory.  Here the store holds several requests, and each
\* step of a request's machine is taken with the outcomes its handler has.

\* The requests of the cluster, as req.NamespacedName.String().
RequestKeys == {"a/b", "default/backup", "default/backup-nightly"}

\* req.NamespacedName.String() + "-" + phase
PhaseKey(req, phase) == req \o "-" \o phase

\* key[:len(req)]: a slice beyond the key's length is a run-time panic.
KeyPrefix(key, n) == SubSeq(key, 1, n)

\* The Failed case's scan of PhaseStart for one request: the tables it can
\* leave (nothing is left to chance unless the scan panics on a key shorter
\* than the request's name: the entries met before it are gone, in the
\* map's order) with whether the scan panicked.
FailedScan(table, req) ==
  LET short == {key \in table : Len(key) < Len(req)}
      own == {key \in table \ short : KeyPrefix(key, Len(req)) = req}
  IN IF short = {}
     THEN {[table |-> table \ own, panic |-> FALSE]}
     ELSE {[table |-> table \ met, panic |-> TRUE] : met \in SUBSET own}

\* One invocation for the request req leaves it in phase p with the timing
\* table t and returns r.
Timed(req, p, t, r) ==
  /\ requests' = [requests EXCEPT ![req] = p]
  /\ PhaseStart' = t
  /\ result' = r
  /\ calls' = <<>>
  /\ UNCHANGED <<dmVars, popVars, scheduleVars, imageVars, pvcs, jobs>>

\* case PhaseInitial: the clone's phase begins; createClonedPVC follows.
reconcileInitial ==
  \E req \in DOMAIN requests :
    /\ requests[req] = PhaseInitial
    /\ LET t == PhaseStart \cup {PhaseKey(req, PhaseCreatingPVC)} IN
         \/ Timed(req, PhaseCreatingPVC, t, "requeue")
         \/ Timed(req, PhaseInitial, t, "error")

\* case PhaseCreatingPVC: waitForPVCBound, which leaves the table alone.
reconcileCreatingPVC ==
  \E req \in DOMAIN requests :
    /\ requests[req] = PhaseCreatingPVC
    /\ \/ Timed(req, PhasePVCReady, PhaseStart, "requeue")
       \/ Timed(req, PhaseCreatingPVC, PhaseStart, "requeueAfter15s")
       \/ Timed(req, PhaseCreatingPVC, PhaseStart, "error")

\* case PhasePVCReady: the clone's phase ends and the job's begins;
\* createVerificationJob follows.
reconcilePVCReady ==
  \E req \in DOMAIN requests :
    /\ requests[req] = PhasePVCReady
    /\ LET t == (PhaseStart \ {PhaseKey(req, PhaseCreatingPVC)})
                  \cup {PhaseKey(req, PhaseCreatingPod)}
       IN \/ Timed(req, PhaseCreatingPod, t, "requeue")
          \/ Timed(req, PhasePVCReady, t, "error")

\* case PhaseCreatingPod: waitForJobCompletion ends the job's phase when the
\* job has succeeded, before it writes the next phase.
reconcileCreatingPod ==
  \E req \in DOMAIN requests :
    /\ requests[req] = PhaseCreatingPod
    /\ LET t == PhaseStart \ {PhaseKey(req, PhaseCreatingPod)} IN
         \/ \E p \in {PhaseCleaningUp, PhaseCompleted} : Timed(req, p, t, "requeue")
         \/ Timed(req, PhaseCreatingPod, t, "error")
         \/ Timed(req, PhaseFailed, PhaseStart, "done")
         \/ Timed(req, PhaseCreatingPod, PhaseStart, "requeueAfter15s")
         \/ Timed(req, PhaseCreatingPod, PhaseStart, "error")

\* case PhaseCleaningUp: cleanupClonedPVC, which leaves the table alone.
reconcileCleaningUp ==
  \E req \in DOMAIN requests :
    /\ requests[req] = PhaseCleaningUp
    /\ \/ Timed(req, PhaseCompleted, PhaseStart, "done")
       \/ Timed(req, PhaseOnDeleteError, PhaseStart, "done")
       \/ Timed(req, PhaseCleaningUp, PhaseStart, "error")

\* case PhaseCompleted: nothing.
reconcileCompleted ==
  \E req \in DOMAIN requests :
    /\ requests[req] = PhaseCompleted
    /\ Timed(req, PhaseCompleted, PhaseStart, "done")

\* case PhaseFailed: the request's entries are removed by a scan of the
\* whole table.
reconcileFailed ==
  \E req \in DOMAIN requests :
    /\ requests[req] = PhaseFailed
    /\ \E scan \in FailedScan(PhaseStart, req) :
         Timed(req, PhaseFailed, scan.table,
               IF scan.panic THEN "panic" ELSE "done")

\* delete(r.PhaseStart, req.NamespacedName.String()): the table without the
\* entry whose key is the request's name.
NotFoundTable(table, req) == table \ {req}

\* r.Get answers NotFound: the entry named like the request is removed.
reconcileNotFound ==
  \E req \in RequestKeys \ DOMAIN requests :
    /\ PhaseStart' = NotFoundTable(PhaseStart, req)
    /\ result' = "done"
    /\ calls' = <<>>
    /\ UNCHANGED <<requests, dmVars, popVars, scheduleVars, imageVars, pvcs, jobs>>

\* A user deletes a request.
RequestDeleted ==
  \E req \in DOMAIN requests :
    /\ requests' = Remove(requests, req)
    /\ result' = "none"
    /\ calls' = <<>>
    /\ UNCHANGED <<PhaseStart, dmVars, popVars, scheduleVars, imageVars, pvcs, jobs>>

\* The manager restarts: its memory is lost.
ManagerRestarted ==
  /\ PhaseStart # {}
  /\ PhaseStart' = {}
  /\ result' = "none"
  /\ calls' = <<>>
  /\ UNCHANGED <<requests, dmVars, popVars, scheduleVars, imageVars, pvcs, jobs>>

\* Some requests, new, and an empty table.
TimingInit ==
  /\ NoRequest
  /\ NoPopulation
  /\ NoSchedule
  /\ NoRun
  /\ pvcs = EmptyMap
  /\ jobs = EmptyMap
  /\ result = "none"
  /\ calls = <<>>
  /\ \E names \in SUBSET RequestKeys :
       /\ names # {}
       /\ requests = [req \in names |-> PhaseInitial]
  /\ PhaseStart = {}

TimingNext ==
  \/ reconcileInitial
  \/ reconcileCreatingPVC
  \/ reconcilePVCReady
  \/ reconcileCreatingPod
  \/ reconcileCleaningUp
  \/ reconcileCompleted
  \/ reconcileFailed
  \/ reconcileNotFound
  \/ RequestDeleted
  \/ ManagerRestarted

TimingSpec == TimingInit /\ [][TimingNext]_vars

\* -------------------------------------------------- the schedule producer
\* DataMoverCronReconciler, and DataMoverScheduleReconciler which is the same
\* code: one invocation trims the finished children of the schedule to its
\* history limits and, when the schedule is due, creates the next child.
\* The clock counts minutes and an invocation runs on the minute.

MaxCronTime == 4

\* successfulJobsHistoryLimit := int32(3); failedJobsHistoryLimit := int32(1)
DefaultSuccessfulJobsHistoryLimit == 3
DefaultFailedJobsHistoryLimit == 1

\* A history limit that the object does not set (a nil *int32).
NilLimit == -1

CronName == "nightly"

\* The schedules of the model: every minute, every second minute, and one
\* that the object's pattern admits and cron.ParseStandard refuses.
Schedules == {"* * * * *", "*/2 * * * *", "*/0 * * * *"}

\* The step of a schedule's minute field; 0: the schedule does not parse.
Every(schedule) ==
  CASE schedule = "* * * * *" -> 1
    [] schedule = "*/2 * * * *" -> 2
    [] OTHER -> 0

\* scheduledTime := cronSchedule.Next(now - 1s) is not after now.
Due(schedule, t) == t % Every(schedule) = 0

\* The limit in force: the object's, or the default.
HistoryLimit(limit, default) == IF limit = NilLimit THEN default ELSE limit

\* fmt.Sprintf("%s-%d", dataMoverCron.Name, scheduledTime.Unix())
ChildName(cronName, scheduledTime) == cronName \o "-" \o ToString(scheduledTime)

\* The child request: labelled for and owned by the schedule.
ChildDataMover(c, t) ==
  [phase |-> PhaseInitial,
   creationTimestamp |-> t,
   labels |-> [datamovercron |-> c.name, schedule |-> t],
   owner |-> c.name,
   spec |-> [sourcePVC |-> c.spec.sourcePvc,
             secretName |-> c.spec.secretName,
             deletePvcAfterBackup |-> c.spec.deletePvcAfterBackup]]

\* r.List with the schedule's label, split by phase.
ChildrenOf(c) == {n \in DOMAIN children : children[n].labels.datamovercron = c.name}
SuccessfulJobs(c) == {n \in ChildrenOf(c) : children[n].phase = PhaseCompleted}
FailedJobs(c) == {n \in ChildrenOf(c) : children[n].phase = PhaseFailed}
ActiveJobs(c) == ChildrenOf(c) \ (SuccessfulJobs(c) \cup FailedJobs(c))

\* sort.Slice by creation timestamp, oldest first.
RECURSIVE SortedByCreation(_)
SortedByCreation(S) ==
  IF S = {} THEN <<>>
  ELSE LET first == CHOOSE n \in S :
                      \A m \in S : children[n].creationTimestamp
                                     <= children[m].creationTimestamp
       IN <<first>> \o SortedByCreation(S \ {first})

\* Mutant: one more than the limit is kept.
OverLimit_OneMore(sorted, limit) ==
  IF Len(sorted) > limit + 1 THEN SubSeq(sorted, 1, Len(sorted) - limit - 1)
  ELSE <<>>

\* for i := 0; i < len(jobs)-int(limit); i++: the jobs to delete, in order.
OverLimit(sorted, limit) ==
  IF Len(sorted) > limit THEN SubSeq(sorted, 1, Len(sorted) - limit)
  ELSE <<>>

\* The Delete calls of a list of children, those in refused failing.
Deletes(names, refused) ==
  [i \in 1..Len(names) |->
     Call("Delete", "DataMover", names[i], names[i] \notin refused)]

\* The invocation leaves the schedule c and the children ch, returns r
\* having issued cs.
CronReturns(c, ch, r, cs) ==
  /\ cron' = c
  /\ children' = ch
  /\ result' = r
  /\ calls' = cs
  /\ createdFor' = IF \E i \in DOMAIN cs : cs[i].op = "Create" /\ cs[i].ok
                   THEN now
                   ELSE createdFor
  /\ UNCHANGED <<dmVars, popVars, timingVars, imageVars, pvcs, jobs>>

\* Reconcile(req) of the schedule producer.
CronReconcile ==
  LET listed == <<Call("List", "DataMover", cron.name, TRUE)>>
      old == OverLimit(SortedByCreation(SuccessfulJobs(cron)),
                       HistoryLimit(cron.spec.successfulJobsHistoryLimit,
                                    DefaultSuccessfulJobsHistoryLimit))
             \o OverLimit(SortedByCreation(FailedJobs(cron)),
                          HistoryLimit(cron.spec.failedJobsHistoryLimit,
                                       DefaultFailedJobsHistoryLimit))
      name == ChildName(cron.name, now)
      active == ActiveJobs(cron) \cup {name}
      scheduled == [cron EXCEPT !.status =
                      [lastScheduleTime |-> now,
                       active |-> active,
                       activeJobs |-> Cardinality(active),
                       successfulJobs |-> Cardinality(SuccessfulJobs(cron)),
                       failedJobs |-> Cardinality(FailedJobs(cron))]]
  IN
  /\ cron.name # ""
  /\ \/ \* r.Get of the schedule fails
        CronReturns(cron, children, "error", <<>>)
     \/ /\ cron.spec.suspend
        /\ CronReturns(cron, children, "done", <<>>)
     \/ /\ ~cron.spec.suspend
        /\ Every(cron.spec.schedule) = 0
        /\ CronReturns(cron, children, "error", <<>>)
     \/ /\ ~cron.spec.suspend
        /\ Every(cron.spec.schedule) # 0
        /\ CronReturns(cron, children, "error",
                       <<Call("List", "DataMover", cron.name, FALSE)>>)
     \/ /\ ~cron.spec.suspend
        /\ Every(cron.spec.schedule) # 0
        /\ \E refused \in SUBSET {old[i] : i \in 1..Len(old)} :
             LET kept == [n \in DOMAIN children
                            \ ({old[i] : i \in 1..Len(old)} \ refused)
                            |-> children[n]]
                 cleaned == listed \o Deletes(old, refused)
             IN IF ~Due(cron.spec.schedule, now)
                   \/ (/\ cron.status.lastScheduleTime # 0
                       /\ now < cron.status.lastScheduleTime + 1)
                THEN CronReturns(cron, kept, "requeueAfterNext", cleaned)
                ELSE \/ CronReturns(cron, kept, "error",
                          Append(cleaned, Call("Create", "DataMover", name, FALSE)))
                     \/ /\ name \notin DOMAIN children
                        /\ \/ CronReturns(cron,
                                Put(kept, name, ChildDataMover(cron, now)), "error",
                                cleaned \o <<Call("Create", "DataMover", name, TRUE),
                                             Call("UpdateStatus", "DataMoverCron",
                                                  cron.name, FALSE)>>)
                           \/ CronReturns(scheduled,
                                Put(kept, name, ChildDataMover(cron, now)),
                                "requeueAfterNext",
                                cleaned \o <<Call("Create", "DataMover", name, TRUE),
                                             Call("UpdateStatus", "DataMoverCron",
                                                  cron.name, TRUE)>>)

\* A step of the cluster around the schedule.
CronClusterStep ==
  /\ result' = "none"
  /\ calls' = <<>>
  /\ UNCHANGED <<dm, created, jobSeenSucceeded, deleteFailed, cache,
                 cachedReads, claimsRead, popVars, timingVars, imageVars, pvcs, jobs, cron,
                 createdFor>>

\* A minute passes.
CronTick ==
  /\ now < MaxCronTime
  /\ now' = now + 1
  /\ CronClusterStep
  /\ UNCHANGED children

\* A child request runs to its end.
ChildCompleted ==
  /\ \E n \in DOMAIN children :
       /\ children[n].phase \notin {PhaseCompleted, PhaseFailed}
       /\ children' = [children EXCEPT ![n].phase = PhaseCompleted]
  /\ CronClusterStep
  /\ UNCHANGED now

ChildFailed ==
  /\ \E n \in DOMAIN children :
       /\ children[n].phase \notin {PhaseCompleted, PhaseFailed}
       /\ children' = [children EXCEPT ![n].phase = PhaseFailed]
  /\ CronClusterStep
  /\ UNCHANGED now

\* A user edits the schedule of the object.
ScheduleEdited ==
  /\ \E schedule \in Schedules \ {cron.spec.schedule} :
       cron' = [cron EXCEPT !.spec.schedule = schedule]
  /\ result' = "none"
  /\ calls' = <<>>
  /\ UNCHANGED <<dmVars, popVars, timingVars, imageVars, pvcs, jobs, children,
                 createdFor>>

\* The history limits of the model: both left to their defaults, or 1
\* successful and no failed child kept.
CronLimits == {<<NilLimit, NilLimit>>, <<1, 0>>}

\* A schedule as a user makes it, without children.
CronInit ==
  /\ NoRequest
  /\ NoPopulation
  /\ NoTimings
  /\ NoRun
  /\ pvcs = EmptyMap
  /\ jobs = EmptyMap
  /\ result = "none"
  /\ calls = <<>>
  /\ children = EmptyMap
  /\ createdFor = 0
  /\ \E schedule \in Schedules, suspend \in BOOLEAN, limits \in CronLimits :
       cron = [name |-> CronName,
               spec |-> [schedule |-> schedule,
                         suspend |-> suspend,
                         sourcePvc |-> SourcePVC,
                         secretName |-> "storage-credentials",
                         deletePvcAfterBackup |-> FALSE,
                         successfulJobsHistoryLimit |-> limits[1],
                         failedJobsHistoryLimit |-> limits[2]],
               status |-> [lastScheduleTime |-> 0,
                           active |-> {},
                           activeJobs |-> 0,
                           successfulJobs |-> 0,
                           failedJobs |-> 0]]

CronNext ==
  \/ CronReconcile
  \/ CronTick
  \/ ChildCompleted
  \/ ChildFailed
  \/ ScheduleEdited

CronSpec == CronInit /\ [][CronNext]_vars

\* ------------------------------------------------- the image's entrypoint
\* The files a volume can hold, by their path under /data/, and the keys of
\* the objects a bucket can hold before the run.
Files == {"db.sql", "site.tar"}
Keys == {"old.log", "backups/db.sql"}

\* What `date "+%Y-%m-%d-%H%M%S"` prints during the run.
Timestamps == {"2025-01-01-000000"}

\* The environments of a container of the image ("" is an unset variable):
\* the keys of the credentials secret, and SOURCE_PATH and POPULATION_MODE
\* as createPopulationJob sets them for a population job.
Environments ==
  [AWS_ACCESS_KEY_ID : {"", "key"},
   AWS_SECRET_ACCESS_KEY : {"", "secret"},
   BUCKET_HOST : {"", "minio"},
   BUCKET_NAME : {"", "bucket"},
   TLS_HOST : {"", "false", "yes"},
   ADD_TIMESTAMP_PREFIX : {"", "true"},
   SOURCE_PATH : {"", "backups/"},
   POPULATION_MODE : {"", "true"}]

\* Whether the key lies under the path.
HasPrefix(key, path) ==
  /\ Len(key) >= Len(path)
  /\ SubSeq(key, 1, Len(path)) = path

\* The remote "s3generic:<bucket>/": what follows it in a destination is the
\* path inside the bucket.
Remote(bucketName) == "s3generic:" \o bucketName \o "/"
PathInBucket(destination, bucketName) ==
  SubSeq(destination, Len(Remote(bucketName)) + 1, Len(destination))

\* `rclone sync /data/ <destination>`: the destination is made equal to the
\* source; the objects under the destination path that the source does not
\* have are deleted, the source is not changed.
Synced(objects, files, path) ==
  {k \in objects : ~HasPrefix(k, path)} \cup {path \o f : f \in files}

\* A sync that fails has done any part of its copies and deletions.
PartlySynced(objects, files, path) ==
  {b \in SUBSET (objects \cup Synced(objects, files, path)) :
     objects \cap Synced(objects, files, path) \subseteq b}

ImageStep ==
  UNCHANGED <<dmVars, popVars, timingVars, scheduleVars, pvcs, jobs, result,
              calls, env, data>>

\* Lines 11-60: the checks of the environment and `rclone config create`.
Configure ==
  /\ script = "start"
  /\ \/ /\ \/ env.AWS_ACCESS_KEY_ID = ""
           \/ env.AWS_SECRET_ACCESS_KEY = ""
           \/ env.BUCKET_HOST = ""
           \/ env.BUCKET_NAME = ""
           \/ env.TLS_HOST \notin {"", "true", "false"}
        /\ script' = "exit 1"
     \/ /\ env.AWS_ACCESS_KEY_ID # ""
        /\ env.AWS_SECRET_ACCESS_KEY # ""
        /\ env.BUCKET_HOST # ""
        /\ env.BUCKET_NAME # ""
        /\ env.TLS_HOST \in {"", "true", "false"}
        /\ script' \in {"configured", "exit 1"}
  /\ UNCHANGED <<bucket, destination_path>>
  /\ ImageStep

\* Lines 64-72: the destination, under a timestamp or at the bucket's root.
Destination ==
  /\ script = "configured"
  /\ \E timestamp \in Timestamps :
       destination_path' =
         IF env.ADD_TIMESTAMP_PREFIX = "true"
         THEN Remote(env.BUCKET_NAME) \o timestamp \o "/"
         ELSE Remote(env.BUCKET_NAME)
  /\ script' = "destined"
  /\ UNCHANGED bucket
  /\ ImageStep

\* Line 75: `rclone lsd` of the bucket.
ConnectionTest ==
  /\ script = "destined"
  /\ script' \in {"connected", "exit 1"}
  /\ UNCHANGED <<bucket, destination_path>>
  /\ ImageStep

\* Line 80: `rclone sync /data/ "$destination_path"`.
Sync ==
  /\ script = "connected"
  /\ LET path == PathInBucket(destination_path, env.BUCKET_NAME) IN
       \/ /\ bucket' = Synced(bucket, data, path)
          /\ script' = "exit 0"
       \/ /\ bucket' \in PartlySynced(bucket, data, path)
          /\ script' = "exit 1"
  /\ UNCHANGED destination_path
  /\ ImageStep

ImageInit ==
  /\ NoRequest
  /\ NoPopulation
  /\ NoTimings
  /\ NoSchedule
  /\ pvcs = EmptyMap
  /\ jobs = EmptyMap
  /\ result = "none"
  /\ calls = <<>>
  /\ env \in Environments
  /\ data \in SUBSET Files
  /\ bucket \in SUBSET Keys
  /\ script = "start"
  /\ destination_path = ""

ImageNext ==
  \/ Configure
  \/ Destination
  \/ ConnectionTest
  \/ Sync

ImageSpec == ImageInit /\ [][ImageNext]_vars

\* ---------------------------------------------------------------- claims
phase == dm.status.phase
restoredPVCName == dm.status.restoredPVCName

\* The last step was an invocation that issued a Delete (that failed).
DeleteIn(cs) == \E i \in DOMAIN cs : cs[i].op = "Delete"
DeleteFailedIn(cs) == \E i \in DOMAIN cs : cs[i].op = "Delete" /\ ~cs[i].ok

\* The phase changes of the table of the Phase State Machine.
TableChange(p, q, d) ==
  \/ p = PhaseInitial /\ q = PhaseCreatingPVC
  \/ p = PhaseCreatingPVC /\ q = PhasePVCReady
  \/ p = PhasePVCReady /\ q = PhaseCreatingPod
  \/ p = PhaseCreatingPod /\ q = PhaseCleaningUp /\ d.spec.deletePvcAfterBackup
  \/ p = PhaseCreatingPod /\ q = PhaseCompleted /\ ~d.spec.deletePvcAfterBackup
  \/ p = PhaseCreatingPod /\ q = PhaseFailed
  \/ p = PhaseCleaningUp /\ q = PhaseCompleted
  \/ p = PhaseCleaningUp /\ q = PhaseFailed

C2_AtMostOneClone ==
  /\ Cardinality(created) <= 1
  /\ phase = PhaseCompleted => Cardinality(created) = 1

\* C3: while the job has no success, the request goes from CreatingPod to
\* Failed only when the job's failed count exceeds its backoff limit; with
\* failures within the limit the phase stays CreatingPod.
C3_FailedOnlyAfterBudget ==
  [][(dm.status.phase = PhaseCreatingPod /\ dm'.status.phase = PhaseFailed)
       => jobs[JobName(dm.status.restoredPVCName)].failed
            > jobs[JobName(dm.status.restoredPVCName)].backoffLimit]_vars

\* C4: Completed and Failed are absorbing: no step changes the request once
\* its phase is Completed or Failed, and an invocation then issues no store
\* write and leaves the claims and jobs as they are.
C4_TerminalAbsorbing ==
  [][dm.status.phase \in {PhaseCompleted, PhaseFailed}
       => /\ dm' = dm
          /\ result' # "none"
               => calls' = <<>> /\ pvcs' = pvcs /\ jobs' = jobs]_vars

\* C4 witness: an invocation ran on a Failed request.
C4_Witness ==
  /\ phase = PhaseFailed
  /\ result = "done"
  /\ calls = <<>>

\* C5: when a request with deletePvcAfterBackup is Completed, no clone the
\* machine created for it exists in the store.
C5_NoCloneLeftAfterCleanup ==
  (phase = PhaseCompleted /\ dm.spec.deletePvcAfterBackup)
    => \A n \in created : n \notin DOMAIN pvcs

\* C6: a request is in CleaningUp or Completed only if an invocation read
\* its sync job with at least one success.
C6_CompletedOnlyAfterSuccess ==
  phase \in {PhaseCleaningUp, PhaseCompleted}
    => /\ jobSeenSucceeded
       /\ JobName(restoredPVCName) \in DOMAIN jobs
       /\ jobs[JobName(restoredPVCName)].succeeded > 0

\* C6 witness: a request without cleanup completed from CreatingPod.
C6_Witness ==
  /\ phase = PhaseCompleted
  /\ ~dm.spec.deletePvcAfterBackup
  /\ result = "requeue"

C8_DeleteErrorFailsForGood ==
  [][/\ DeleteFailedIn(calls') => dm'.status.phase = PhaseFailed
     /\ (deleteFailed /\ calls' # calls) => ~DeleteIn(calls')]_vars

\* C8 amended: an invocation whose Delete failed writes Failed as its next
\* and last store write; when the store takes the write the phase is Failed
\* and no Delete is issued from then on; when that write fails too the
\* invocation returns the error and the phase stays CleaningUp.
C8_DeleteErrorWritesFailed ==
  [][/\ (DeleteFailedIn(calls') /\ calls' # calls)
          => /\ dm.status.phase = PhaseCleaningUp
             /\ Len(calls') = 2
             /\ calls'[2].op = "UpdateStatus"
             /\ calls'[2].ok => dm'.status.phase = PhaseFailed
             /\ ~calls'[2].ok
                  => dm'.status.phase = PhaseCleaningUp /\ result' = "error"
     /\ (dm.status.phase = PhaseFailed /\ calls' # calls)
          => ~DeleteIn(calls')]_vars

\* C8 witness: the Delete failed and the request is Failed.
C8_Witness ==
  /\ phase = PhaseFailed
  /\ calls = <<Call("Delete", "PVC", restoredPVCName, FALSE),
               Call("UpdateStatus", "DataMover", dm.name, TRUE)>>

\* C9: when deleting the clone fails during cleanup, the phase remains
\* CleaningUp (and the delete is retried by later invocations).
C9_DeleteErrorKeepsCleaningUp ==
  [][(DeleteFailedIn(calls') /\ calls' # calls)
       => dm'.status.phase = PhaseCleaningUp]_vars

\* C10: a request waiting in CreatingClonedPVC whose clone is missing is
\* eventually set to Failed by an invocation.
C10_FailedFromPVCWait ==
  (phase = PhaseCreatingPVC /\ restoredPVCName \notin DOMAIN pvcs)
    ~> (phase = PhaseFailed)

\* A Create call of kind `kind` that the store refused.
CreateFailedIn(cs, kind) ==
  \E i \in 1..Len(cs) :
    cs[i].op = "Create" /\ cs[i].kind = kind /\ ~cs[i].ok

\* C11: an invocation at the initial phase that finds the source claim absent,
\* or whose Create of the clone is refused, fails the request: it records no
\* clone name and leaves the request in phase Failed.
C11_InitialErrorFailsRequest ==
  [][(/\ phase = PhaseInitial
      /\ \/ /\ claimsRead' = {SourcePVC}
            /\ SourcePVC \notin DOMAIN pvcs
         \/ CreateFailedIn(calls', "PVC"))
     => /\ dm'.status.restoredPVCName = ""
        /\ dm'.status.phase = PhaseFailed]_vars

\* C12: a clone is created only from a source claim that exists and is
\* bound.
C12_CloneOnlyFromBoundSource ==
  [][created' # created
     => /\ SourcePVC \in DOMAIN pvcs
        /\ pvcs[SourcePVC].phase = ClaimBound]_vars

\* C13: once status.restoredPvcName is non-empty no step changes it, whatever
\* the interleaving of invocations, stale reads and refused writes.
C13_CloneNameWrittenOnce ==
  [][restoredPVCName # ""
     => dm'.status.restoredPVCName = restoredPVCName]_vars

\* An invocation that read a copy from before the clone name was recorded
\* created another clone and tried to record that one: the store refused.
C13_Witness ==
  /\ restoredPVCName # ""
  /\ cache.status.restoredPVCName = ""
  /\ \E n \in created : n # restoredPVCName
  /\ Len(calls) = 2
  /\ calls[1].op = "Create" /\ calls[1].ok
  /\ calls[2].op = "UpdateStatus" /\ ~calls[2].ok

\* C14: a request owns at most one sync job: an invocation in phase
\* ClonedPVCReady that finds the job named from the recorded clone creates no
\* job, and its only write is the status write that advances the request to
\* CreatingPod.
C14_AtMostOneJob ==
  [][/\ Cardinality(DOMAIN jobs') <= 1
     /\ (/\ phase = PhasePVCReady
         /\ JobName(restoredPVCName) \in DOMAIN jobs
         /\ result' # "none"
         /\ calls' # <<>>)
        => /\ jobs' = jobs
           /\ Len(calls') = 1
           /\ calls'[1].op = "UpdateStatus"
           /\ calls'[1].ok => dm'.status.phase = PhaseCreatingPod]_vars

\* The job was there before the request left ClonedPVCReady (its status write
\* had failed): the request advanced with the status write alone.
C14_Witness ==
  /\ phase = PhaseCreatingPod
  /\ result = "requeue"
  /\ calls = <<Call("UpdateStatus", "DataMover", dm.name, TRUE)>>
  /\ DOMAIN jobs = {JobName(restoredPVCName)}

\* The bounded clock stands still at a second whose clone name is taken.
ClockRanOut ==
  /\ now = MaxTime
  /\ phase = PhaseInitial
  /\ ClonedPVCName(SourcePVC, now) \in DOMAIN pvcs

\* C15: under fair scheduling, with the source claim present, the clone
\* eventually bound, the sync job eventually succeeding and store calls
\* eventually succeeding, a request with deletePvcAfterBackup=true reaches
\* Completed with its clone deleted, and a request with
\* deletePvcAfterBackup=false reaches Completed with its clone kept.  (A run
\* whose clock reaches MaxTime with the clone of that second created but not
\* recorded is cut short by the bound, and is not held against the claim.)
C15_RunsToCompletion ==
  /\ (/\ SourcePVC \in DOMAIN pvcs
      /\ phase = PhaseInitial
      /\ dm.spec.deletePvcAfterBackup)
     ~> \/ /\ phase = PhaseCompleted
           /\ restoredPVCName # ""
           /\ restoredPVCName \notin DOMAIN pvcs
        \/ ClockRanOut
  /\ (/\ SourcePVC \in DOMAIN pvcs
      /\ phase = PhaseInitial
      /\ ~dm.spec.deletePvcAfterBackup)
     ~> \/ /\ phase = PhaseCompleted
           /\ restoredPVCName \in DOMAIN pvcs
        \/ ClockRanOut

\* The fields a clone takes from its source.
SameStorage(a, b) ==
  /\ a.accessModes = b.accessModes
  /\ a.size = b.size
  /\ a.storageClassName = b.storageClassName

target == pvcs[TargetPVC]
primeName == PrimePVCName(TargetPVC)
populated == IsTrue(target.annotations, AnnPopulated)

\* C17: in every state where the target claim carries populated=true its
\* prime claim is no longer in the store, also when the store deletes claims
\* asynchronously.
C17_PrimeGoneWhenPopulated ==
  populated => primeName \notin DOMAIN pvcs

\* C18: a target claim that carries populated=true names the volume that was
\* bound to its prime claim when the population job succeeded; that volume is
\* still in the store, is held by no other claim, and is the volume the
\* target is bound to once the binder has acted.
C18_TargetGetsThePrimeVolume ==
  populated
  => /\ volAtSuccess # ""
     /\ target.volumeName = volAtSuccess
     /\ volAtSuccess \in DOMAIN pvs
     /\ pvs[volAtSuccess].claimRef \in {"", TargetPVC}
     /\ target.phase = ClaimBound => pvs[volAtSuccess].claimRef = TargetPVC

\* The population ran to its end: the target is populated and bound to the
\* volume the job filled, and the prime claim is gone.
C18_Witness ==
  /\ populated
  /\ target.phase = ClaimBound
  /\ target.volumeName = volAtSuccess
  /\ pvs[volAtSuccess].claimRef = TargetPVC
  /\ primeName \notin DOMAIN pvcs

\* The claims that name the volume v in spec.volumeName.
ClaimsNaming(v) == {n \in DOMAIN pvcs : pvcs[n].volumeName = v}

\* C19 as stated: at every moment a volume is bound to exactly one claim, and
\* the prime claim and the target claim never both reference it.
C19_VolumeOfExactlyOneClaim ==
  \A v \in DOMAIN pvs :
    /\ pvs[v].claimRef # ""
    /\ Cardinality(ClaimsNaming(v)) = 1

\* C19 amended: every claim that is bound and not being deleted is the claim
\* its volume is bound to, so a volume is bound to at most one claim: to the
\* prime claim, to none once its claim reference is cleared, to the target
\* once the binder has acted; and only the target and its prime claim ever
\* name one volume together.
C19_VolumeBoundToAtMostOne ==
  /\ \A n \in DOMAIN pvcs :
       (pvcs[n].phase = ClaimBound /\ ~pvcs[n].deleting)
       => /\ pvcs[n].volumeName \in DOMAIN pvs
          /\ pvs[pvcs[n].volumeName].claimRef = n
  /\ \A v \in DOMAIN pvs :
       /\ pvs[v].claimRef \in {""} \cup ClaimsNaming(v) \cup {primeName}
       /\ ClaimsNaming(v) \in SUBSET {TargetPVC, primeName}

\* Between the clearing of the claim reference and the binder's step: the
\* target and the prime claim both name the volume, which is bound to none.
C19_Witness ==
  /\ primeName \in DOMAIN pvcs
  /\ target.volumeName # ""
  /\ ClaimsNaming(target.volumeName) = {TargetPVC, primeName}
  /\ pvs[target.volumeName].claimRef = ""

\* C20: per population the hand-off write (the prime claim's volume name and
\* cleanup-in-progress=true on the target) is issued at most once: once it
\* has been accepted no invocation issues it again.
C20_HandOffWrittenOnce ==
  [][handoffWritten
     => ~\E i \in 1..Len(calls') : calls'[i].change = "hand-off"]_vars
\* C21: once the hand-off has begun (the target's volume reference is
\* written), however the invocations after it stop - before or after the job
\* is deleted, the prime claim is deleted, the volume's claim reference is
\* cleared - the target claim eventually carries populated=true, store
\* operations succeeding again and again.
C21_HandOffRunsToPopulated == handoffWritten ~> populated

\* The attempts of a retried update in the writes of an invocation, and the
\* refused ones among them.
AttemptsIn(cs, kind, name, change) ==
  {i \in 1..Len(cs) : /\ cs[i].op = "Update"
                      /\ cs[i].kind = kind
                      /\ cs[i].name = name
                      /\ cs[i].change \in {"conflict", change}}
ConflictsIn(cs, kind, name) ==
  {i \in 1..Len(cs) : /\ cs[i].kind = kind
                      /\ cs[i].name = name
                      /\ cs[i].change = "conflict"}

\* C22: in an invocation, each of the two retried updates of the hand-off
\* (the volume's claim reference cleared, the target marked populated) is
\* attempted at most 3 times; when 3 attempts were answered with a conflict
\* the invocation returns an error after exactly these 3; and when clearing
\* the claim reference did not succeed no attempt is made to mark the target
\* populated, which it is not.
C22_RetriesBounded ==
  [][result' # "none" =>
       \A v \in DOMAIN pvs :
         LET clear == AttemptsIn(calls', "PV", v, "claimRef")
             mark == AttemptsIn(calls', "PVC", TargetPVC, AnnPopulated)
         IN /\ Cardinality(clear) <= MaxRetries
            /\ Cardinality(mark) <= MaxRetries
            /\ Cardinality(ConflictsIn(calls', "PV", v)) = MaxRetries
                 => result' = "error" /\ Cardinality(clear) = MaxRetries
            /\ Cardinality(ConflictsIn(calls', "PVC", TargetPVC)) = MaxRetries
                 => result' = "error" /\ Cardinality(mark) = MaxRetries
            /\ (clear # {} /\ \A i \in clear : ~calls'[i].ok)
                 => /\ mark = {}
                    /\ result' = "error"
                    /\ ~IsTrue(pvcs'[TargetPVC].annotations, AnnPopulated)]_vars

\* C22 happens: an invocation cleared the claim reference at its third
\* attempt, and gave up marking the target after three conflicts.
C22_Witness ==
  /\ result = "error"
  /\ \E v \in DOMAIN pvs :
       /\ Cardinality(ConflictsIn(calls, "PV", v)) = MaxRetries - 1
       /\ pvs[v].claimRef = ""
  /\ Cardinality(ConflictsIn(calls, "PVC", TargetPVC)) = MaxRetries
  /\ ~populated

\* C23: the target claim never carries populated=true together with
\* populating=true or cleanup-in-progress=true, and the step that sets
\* populated=true is an accepted update of the target that leaves neither of
\* the two other annotations.
C23_PopulatedAlone ==
  /\ [](populated => /\ ~IsTrue(target.annotations, AnnPopulating)
                     /\ ~IsTrue(target.annotations, AnnCleanup))
  /\ [][(~populated /\ populated') =>
          /\ \E i \in 1..Len(calls') :
               calls'[i] = Write("Update", "PVC", TargetPVC, TRUE, AnnPopulated)
          /\ AnnPopulating \in DOMAIN target.annotations
          /\ AnnCleanup \in DOMAIN target.annotations
          /\ AnnPopulating \notin DOMAIN target.annotations'
          /\ AnnCleanup \notin DOMAIN target.annotations']_vars

\* C23 happens: the last update of an invocation has just marked a target
\* that carried both annotations.
C23_Witness ==
  /\ populated
  /\ result = "requeueAfter5s"
  /\ calls # <<>>
  /\ calls[Len(calls)] = Write("Update", "PVC", TargetPVC, TRUE, AnnPopulated)
  /\ \E i \in 1..Len(calls) : calls[i].change = "hand-off"

\* An accepted write of the last invocation.
Wrote(cs, op, kind, name) ==
  \E i \in 1..Len(cs) :
    cs[i].op = op /\ cs[i].kind = kind /\ cs[i].name = name /\ cs[i].ok
primeJob == PopulationJobName(primeName)

\* C24: the population job is created only by an invocation that found its
\* prime claim there and bound; the prime claim is deleted only by an
\* invocation that found the population job absent; and so, in every state,
\* a population job that is there has its prime claim there.
C24_JobWithinPrimeClaim ==
  /\ [][Wrote(calls', "Create", "Job", primeJob) =>
          /\ primeName \in DOMAIN pvcs
          /\ pvcs[primeName].phase = ClaimBound]_vars
  /\ [][Wrote(calls', "Delete", "PVC", primeName) =>
          primeJob \notin DOMAIN jobs]_vars
  /\ [](primeJob \in DOMAIN jobs => primeName \in DOMAIN pvcs)

\* C24 happens: the job has come and gone, and the prime claim has just been
\* deleted.
C24_Witness ==
  /\ Wrote(calls, "Delete", "PVC", primeName)
  /\ primeName \in DOMAIN pvcs
  /\ pvcs[primeName].deleting
  /\ primeJob \notin DOMAIN jobs
  /\ volAtSuccess # ""

\* A pending target claim, fresh, whose populator and secret are there.
PopulationRequested ==
  /\ target.phase = ClaimPending
  /\ target.annotations = EmptyMap
  /\ target.dataSourceRef \in populators
  /\ PopulatorSecret \in secrets

\* C25: under fair scheduling a pending target claim whose populator is there
\* is eventually populated, and the step that marks it finds the hand-off
\* done in order: the target names the volume the job filled, the job is
\* gone, the prime claim is deleted, the volume's claim reference is cleared
\* before the mark is written.
C25_PendingTargetIsPopulated ==
  /\ PopulationRequested ~> populated
  /\ [][(~populated /\ populated') =>
          /\ handoffWritten
          /\ target.volumeName = volAtSuccess
          /\ primeJob \notin DOMAIN jobs
          /\ pvcs'[primeName].deleting
          /\ pvs'[target.volumeName].claimRef = ""
          /\ \E i, j \in 1..Len(calls') :
               /\ i < j
               /\ calls'[i] = Write("Update", "PV", target.volumeName, TRUE, "claimRef")
               /\ calls'[j] = Write("Update", "PVC", TargetPVC, TRUE, AnnPopulated)]_vars

\* The states in which the request's machine has nothing to do but wait, or
\* is done.
RequestAtRest ==
  \/ /\ phase = PhaseCreatingPVC
     /\ restoredPVCName \in DOMAIN pvcs
     /\ pvcs[restoredPVCName].phase # ClaimBound
  \/ /\ phase = PhaseCreatingPod
     /\ JobName(restoredPVCName) \in DOMAIN jobs
     /\ ~JobSucceeded(jobs[JobName(restoredPVCName)])
     /\ ~JobFailed(jobs[JobName(restoredPVCName)])
  \/ phase \in {PhaseCompleted, PhaseFailed}

\* The same for the populator: the job runs, the job or the prime claim is
\* on its way out, or the target is populated and the prime claim gone.
PopulationAtRest ==
  /\ TargetPVC \in DOMAIN pvcs
  /\ \/ /\ primeJob \in DOMAIN jobs
        /\ jobs[primeJob].deleting
     \/ /\ primeJob \in DOMAIN jobs
        /\ jobs[primeJob].succeeded = 0
        /\ jobs[primeJob].failed = 0
        /\ primeName \in DOMAIN pvcs
        /\ pvcs[primeName].phase = ClaimBound
        /\ ~pvcs[primeName].deleting
     \/ /\ primeName \in DOMAIN pvcs
        /\ pvcs[primeName].deleting
        /\ ~IsTrue(target.annotations, AnnCleanup)
     \/ /\ populated
        /\ primeName \notin DOMAIN pvcs

\* C26: an invocation of either machine in a state at rest issues no create,
\* update or delete.
C26_NoWriteAtRest ==
  [][((RequestAtRest \/ PopulationAtRest) /\ result' # "none")
       => calls' = <<>>]_vars

\* C27: an invocation without error for a bound target claim whose populator
\* and secret are there leaves a population job named after the target claim,
\* datamover-populator-<target>, with one main container, SOURCE_PATH the
\* populator's path and POPULATION_MODE=true.
C27_JobForBoundTarget ==
  [][(/\ DOMAIN pvcs = {TargetPVC}
      /\ target.phase = ClaimBound
      /\ target.dataSourceRef \in populators
      /\ PopulatorSecret \in secrets
      /\ result' \notin {"none", "error"})
       => /\ PopulationJobName(TargetPVC) \in DOMAIN jobs'
          /\ Len(jobs'[PopulationJobName(TargetPVC)].containers) = 1
          /\ jobs'[PopulationJobName(TargetPVC)].sourcePath = PopulatorPath
          /\ jobs'[PopulationJobName(TargetPVC)].populationMode = "true"]_vars

\* C28: every clone and sync job carries an owner reference to its DataMover
\* request, every prime claim and population job one to its target claim.
C28_ChildrenOwned ==
  /\ \A n \in created \cap DOMAIN pvcs : pvcs[n].owner = dm.name
  /\ \A j \in DOMAIN jobs :
       jobs[j].owner = IF j = primeJob THEN TargetPVC ELSE dm.name
  /\ primeName \in DOMAIN pvcs => pvcs[primeName].owner = TargetPVC

\* C29: no invocation panics, whatever requests and timing entries there
\* are; in particular the Failed case's scan of the timing table by key
\* prefix ends normally for every combination of names.
C29_NoInvocationFaults == result # "panic"

\* The children of a phase in a table of children, and the limits in force.
InPhase(ch, p) == {n \in DOMAIN ch : ch[n].phase = p}
successfulLimit ==
  HistoryLimit(cron.spec.successfulJobsHistoryLimit, DefaultSuccessfulJobsHistoryLimit)
failedLimit ==
  HistoryLimit(cron.spec.failedJobsHistoryLimit, DefaultFailedJobsHistoryLimit)

\* No Delete of the calls cs failed; the children were listed.
DeletesSucceeded(cs) == \A i \in 1..Len(cs) : cs[i].op = "Delete" => cs[i].ok
Listed(cs) == \E i \in 1..Len(cs) : cs[i].op = "List" /\ cs[i].ok

\* What an invocation leaves of the history: the finished children within
\* the limits, the removed ones finished and older than every child of their
\* phase that is kept.
HistoryTrimmed ==
  /\ Cardinality(InPhase(children', PhaseCompleted)) <= successfulLimit
  /\ Cardinality(InPhase(children', PhaseFailed)) <= failedLimit
  /\ \A n \in DOMAIN children \ DOMAIN children' :
       /\ children[n].phase \in {PhaseCompleted, PhaseFailed}
       /\ \A m \in InPhase(children', children[n].phase) :
            children[n].creationTimestamp < children[m].creationTimestamp

CreateIn(cs) == \E i \in 1..Len(cs) : cs[i].op = "Create"

\* C31: an invocation that finds cleanup-in-progress=true on the target
\* claim issues no Create: neither a prime claim nor a population job is
\* made once the hand-off has begun.
C31_NoRepopulationInCleanup ==
  [][(/\ AnnCleanup \in DOMAIN target.annotations
      /\ target.annotations[AnnCleanup] = "true"
      /\ result' # "none")
       => /\ ~CreateIn(calls')
          /\ DOMAIN pvcs' \subseteq DOMAIN pvcs
          /\ DOMAIN jobs' \subseteq DOMAIN jobs]_vars

\* C31 happens: the hand-off has begun, the prime claim and the job are gone
\* and an invocation has answered with a requeue.
C31_Witness ==
  /\ IsTrue(target.annotations, AnnCleanup)
  /\ primeName \notin DOMAIN pvcs
  /\ primeJob \notin DOMAIN jobs
  /\ result = "requeueAfter3s"

\* The annotation key is set on the target claim in the table of claims ch.
Has(ch, key) == key \in DOMAIN ch[TargetPVC].annotations

\* C32: the target claim's annotations only advance.  populating appears
\* only in a step that found the job succeeded and leaves the prime claim
\* annotated populated; cleanup-in-progress appears only with populating set;
\* populated appears only on a claim that carried cleanup-in-progress;
\* populating and cleanup-in-progress disappear only in the step in which
\* populated appears; populated never disappears.
C32_AnnotationsOnlyAdvance ==
  [][/\ (~Has(pvcs, AnnPopulating) /\ Has(pvcs', AnnPopulating))
          => /\ primeJob \in DOMAIN jobs
             /\ jobs[primeJob].succeeded > 0
             /\ IsTrue(pvcs'[primeName].annotations, AnnPopulated)
     /\ (~Has(pvcs, AnnCleanup) /\ Has(pvcs', AnnCleanup))
          => Has(pvcs', AnnPopulating)
     /\ (~Has(pvcs, AnnPopulated) /\ Has(pvcs', AnnPopulated))
          => Has(pvcs, AnnCleanup)
     /\ (Has(pvcs, AnnPopulating) /\ ~Has(pvcs', AnnPopulating))
          => (~Has(pvcs, AnnPopulated) /\ Has(pvcs', AnnPopulated))
     /\ (Has(pvcs, AnnCleanup) /\ ~Has(pvcs', AnnCleanup))
          => (~Has(pvcs, AnnPopulated) /\ Has(pvcs', AnnPopulated))
     /\ Has(pvcs, AnnPopulated) => Has(pvcs', AnnPopulated)]_vars

\* C32 happens: the job has succeeded and the target carries populating,
\* its first annotation, the prime claim being annotated populated.
C32_Witness ==
  /\ Has(pvcs, AnnPopulating)
  /\ ~Has(pvcs, AnnCleanup)
  /\ ~Has(pvcs, AnnPopulated)
  /\ primeName \in DOMAIN pvcs
  /\ IsTrue(pvcs[primeName].annotations, AnnPopulated)
  /\ primeJob \in DOMAIN jobs
  /\ jobs[primeJob].succeeded > 0

\* The population is under way and the hand-off has not begun: the target
\* claim has a populator and no annotation, its prime claim is bound.
Populating ==
  /\ target.dataSourceRef \in populators
  /\ target.annotations = EmptyMap
  /\ primeName \in DOMAIN pvcs
  /\ ~pvcs[primeName].deleting
  /\ pvcs[primeName].phase = ClaimBound

\* C33: an invocation for the target that reads the population job with
\* failed pods and no success deletes the job and leaves every claim as it
\* is; with the job gone an invocation creates the job anew, exactly as the
\* first one was, whatever went before; and the target never carries
\* anything but the annotations of a population that advances.
C33_FailedJobDeletedAndRecreated ==
  /\ (/\ Populating
      /\ primeJob \in DOMAIN jobs
      /\ jobs[primeJob].succeeded = 0
      /\ jobs[primeJob].failed > 0)
       => \A o \in TargetReturns :
            /\ o.pvcs = pvcs
            /\ o.result # "error"
                 => /\ o.calls = <<Write("Delete", "Job", primeJob, TRUE, "delete")>>
                    /\ o.jobs[primeJob].deleting
  /\ (Populating /\ primeJob \notin DOMAIN jobs /\ PopulatorSecret \in secrets)
       => \E o \in TargetReturns :
            /\ o.calls = <<Write("Create", "Job", primeJob, TRUE, "create")>>
            /\ o.jobs[primeJob] = PopulationJob(primeName)
  /\ DOMAIN target.annotations
       \subseteq {AnnPopulating, AnnCleanup, AnnPopulated, "populated-by", "prime-pvc"}

\* C33 happens: the failed job has just been deleted, the target as it was.
C33_Witness ==
  /\ Populating
  /\ primeJob \in DOMAIN jobs
  /\ jobs[primeJob].failed > 0
  /\ jobs[primeJob].deleting
  /\ result = "requeueAfter2m"

\* What an invocation for the claim req can return, wherever it returns from.
InvocationReturns(req) ==
  ReconcileReturns(Store, req)
  \cup (IF ReachesEnsure(Store, req)
        THEN EnsureReturns(Store, req, pvcs[req].dataSourceRef)
             \cup (IF ReachesFinalize(Store, req)
                   THEN FinalizeReturns(Store, req, PrimePVCName(req),
                                        pvcs[req].dataSourceRef)
                   ELSE {})
        ELSE {})

\* The populator that the claim req refers to is not in the namespace.
PopulatorMissing(req) ==
  /\ pvcs[req].dataSourceRef # ""
  /\ pvcs[req].dataSourceRef \notin populators

\* C34: an invocation for a claim that names no populator, for a populated
\* claim whose prime claim is gone, or for a claim whose populator is
\* missing, calls no write and leaves the store as it is; for a missing
\* populator it asks to be run again in 10s, unless the claim is bound or
\* populated, and then it is done.
C34_NoMutationWhenNothingToDo ==
  \A req \in DOMAIN pvcs :
    LET pvc == pvcs[req]
        isPopulated == IsTrue(pvc.annotations, AnnPopulated)
    IN /\ (\/ pvc.dataSourceRef = ""
           \/ isPopulated /\ PrimePVCName(req) \notin DOMAIN pvcs
           \/ PopulatorMissing(req))
            => \A o \in InvocationReturns(req) :
                 /\ o.calls = <<>>
                 /\ o.pvcs = pvcs
                 /\ o.jobs = jobs
                 /\ o.pvs = pvs
       /\ PopulatorMissing(req)
            => /\ \E o \in InvocationReturns(req) : o.result # "error"
               /\ \A o \in InvocationReturns(req) :
                    o.result # "error"
                      => o.result = IF pvc.phase = ClaimBound \/ isPopulated
                                    THEN "done"
                                    ELSE "requeueAfter10s"

\* C34 happens: the populator is gone, and an invocation has asked to be run
\* again for the pending target without a write, while the prime claim and
\* the job of the population are still there.
C34_Witness ==
  /\ PopulatorMissing(TargetPVC)
  /\ target.phase = ClaimPending
  /\ primeName \in DOMAIN pvcs
  /\ primeJob \in DOMAIN jobs
  /\ result = "requeueAfter10s"
  /\ calls = <<>>

\* The machine has made a prime claim for a bound target whose populator and
\* secret are there.
PrimeOfBoundTarget ==
  /\ target.phase = ClaimBound
  /\ target.dataSourceRef \in populators
  /\ PopulatorSecret \in secrets
  /\ primeName \in DOMAIN pvcs

\* C35: under fair scheduling the prime claim and the population job that the
\* machine made for a target that is already bound are eventually deleted.
C35_PrimeOfBoundTargetDeleted ==
  PrimeOfBoundTarget
    ~> /\ primeName \in DOMAIN pvcs => pvcs[primeName].deleting
       /\ primeJob \in DOMAIN jobs => jobs[primeJob].deleting

\* The writes of claims in the calls cs.
ClaimCalls(cs) == {cs[i] : i \in {j \in DOMAIN cs : cs[j].kind = "PVC"}}

\* C36: no invocation of the Phase State Machine writes the source claim: the
\* claims it creates and deletes bear another name, the claim it deletes is
\* the one that the request's status records, it updates no claim, and the
\* source claim is after the invocation what it was before.
C36_SourceClaimUntouched ==
  [][result' # "none"
       => /\ \A c \in ClaimCalls(calls') :
               /\ c.name # dm.spec.sourcePVC
               /\ c.op \in {"Create", "Delete"}
               /\ c.op = "Delete" => c.name = restoredPVCName
          /\ dm.spec.sourcePVC \in DOMAIN pvcs
               => /\ dm.spec.sourcePVC \in DOMAIN pvcs'
                  /\ pvcs'[dm.spec.sourcePVC] = pvcs[dm.spec.sourcePVC]]_vars

\* C36 happens: the clone has been deleted and the source claim is there.
C36_Witness ==
  /\ \E c \in ClaimCalls(calls) : c.op = "Delete" /\ c.ok
  /\ restoredPVCName \notin DOMAIN pvcs
  /\ dm.spec.sourcePVC \in DOMAIN pvcs
  /\ phase = PhaseCompleted

\* The container is the one of a population job: createPopulationJob gave it
\* POPULATION_MODE=true and the populator's path as SOURCE_PATH.
PopulationRun ==
  /\ script # "none"
  /\ env.POPULATION_MODE = "true"
  /\ env.SOURCE_PATH # ""

\* The files that the bucket holds under the path.
FilesUnder(objects, path) ==
  {SubSeq(k, Len(path) + 1, Len(k)) : k \in {o \in objects : HasPrefix(o, path)}}

\* C37: a run of the entrypoint in a population job leaves the bucket as it
\* is, and when it exits with 0 the volume at /data/ holds the files that
\* the bucket holds under SOURCE_PATH.
C37_PopulationFillsTheVolume ==
  /\ [][PopulationRun => bucket' = bucket]_vars
  /\ [](PopulationRun /\ script = "exit 0"
          => FilesUnder(bucket, env.SOURCE_PATH) \subseteq data)

\* The invocation created a child request.
ChildCreated(cs) ==
  \E i \in DOMAIN cs : cs[i].op = "Create" /\ cs[i].kind = "DataMover" /\ cs[i].ok

EntriesOf(req) == {PhaseKey(req, p) : p \in {PhaseCreatingPVC, PhaseCreatingPod}}

\* C39: the scan of an invocation for a failed request removes entries of
\* that request only, and the invocation that finds a request deleted leaves
\* none of that request's entries in the table.
C39_OwnEntriesOnly ==
  /\ \A req \in DOMAIN requests :
       requests[req] = PhaseFailed
         => \A scan \in FailedScan(PhaseStart, req) :
              PhaseStart \ scan.table \subseteq EntriesOf(req)
  /\ \A req \in RequestKeys \ DOMAIN requests :
       NotFoundTable(PhaseStart, req) \cap EntriesOf(req) = {}

====
